---- MODULE Spec2Model ----
(***************************************************************************)
(* Model of the conversation engine (ChatEngine), the tool dispatcher      *)
(* (ToolExecutor) and the part of the Fliplet client the dispatcher sees.  *)
(*                                                                         *)
(* JavaScript runs each piece of code between two awaits to completion,    *)
(* and drains every microtask before the next I/O completion is handled.   *)
(* One action of this model is therefore one such run: it starts at an     *)
(* external event (a caller invoking chat() or reset(), the model call     *)
(* settling, one HTTP request settling) and carries on up to the next      *)
(* point at which the engine waits for I/O.                                *)
(***************************************************************************)
EXTENDS Integers, Sequences, FiniteSets, TLC

\* ---------------------------------------------------------------------
\* Bounds of the exploration
\* ---------------------------------------------------------------------
MaxCap == 2          \* configured maxIterations ranges over 1..MaxCap
MaxCalls == 2        \* tool calls in one model response: 1..MaxCalls
MaxChats == 2        \* chat() invocations in one run
MaxToolCalls == 2    \* tool calls issued by the model in one run
MaxSessions == 2     \* the configured maxSessions ranges over 1..MaxSessions
MaxTtl == 1          \* the configured sessionTtlMs ranges over 1..MaxTtl
MaxClock == 2        \* Date.now() ranges over 0..MaxClock
MaxCreated == 3      \* calls of the engine factory in one run

\* ---------------------------------------------------------------------
\* Values
\* ---------------------------------------------------------------------
NoId == 0            \* absent tool_call_id / absent numeric argument
NoText == "<none>"   \* absent string field

SafetyMessage == "I reached the maximum number of tool calls without producing a final answer. Please try rephrasing your question."


UserMessages == {"How many data sources?"}
AnswerTexts == {"This app has 2 data sources: Users and Products."}

\* Names the model may put in a tool call: the five tools, a name that is
\* nowhere defined, and two names every JavaScript object inherits.
HandlerNames == {"list_data_sources", "get_data_source", "get_data_source_entries",
                 "list_media", "get_media_file"}
InheritedNames == {"constructor", "__proto__"}
ToolNames == HandlerNames \cup InheritedNames \cup {"nonexistent_tool"}

\* Serialized argument payloads the model may send.
ArgumentStrings == {"{}", "{\"dataSourceId\":1}", "{\"fileId\":7}", "null", "{\"dataSourceId\":"}

\* JSON.parse of an argument payload.  ok = FALSE is the SyntaxError.
JSONParse(s) ==
    CASE s = "{}" -> [ok |-> TRUE, isNull |-> FALSE, dataSourceId |-> NoId, fileId |-> NoId]
      [] s = "{\"dataSourceId\":1}" -> [ok |-> TRUE, isNull |-> FALSE, dataSourceId |-> 1, fileId |-> NoId]
      [] s = "{\"fileId\":7}" -> [ok |-> TRUE, isNull |-> FALSE, dataSourceId |-> NoId, fileId |-> 7]
      [] s = "null" -> [ok |-> TRUE, isNull |-> TRUE, dataSourceId |-> NoId, fileId |-> NoId]
      [] OTHER -> [ok |-> FALSE, isNull |-> FALSE, dataSourceId |-> NoId, fileId |-> NoId]

\* ---------------------------------------------------------------------
\* Fliplet client, as far as the dispatcher sees it
\* ---------------------------------------------------------------------
\* What can happen to one HTTP request.
RequestOutcomes == {"ok", "http_error", "timeout", "network_error"}

MkError(name, message, statusCode, responseBody) ==
    [name |-> name, message |-> message, statusCode |-> statusCode, responseBody |-> responseBody]

\* _request: the value or the error one request ends with.
\* threw = FALSE: data is the parsed body.  threw = TRUE: err is the error.
NoError == MkError(NoText, NoText, 0, NoText)
Request(outcome) ==
    CASE outcome = "ok" ->
           [threw |-> FALSE, data |-> "body", err |-> NoError]
      [] outcome = "timeout" ->
           [threw |-> TRUE, data |-> NoText,
            err |-> MkError("FlipletApiError", "Fliplet API request timed out after 30 seconds", 0, "{}")]
      [] outcome = "http_error" ->
           [threw |-> TRUE, data |-> NoText,
            err |-> MkError("FlipletApiError", "Fliplet API error: 404", 404, "body")]
      [] outcome = "non_json" ->
           [threw |-> TRUE, data |-> NoText,
            err |-> MkError("FlipletApiError", "Fliplet API returned non-JSON response: 502", 502, "{}")]
      [] OTHER ->
           [threw |-> TRUE, data |-> NoText,
            err |-> MkError("TypeError", "fetch failed", 0, NoText)]

\* What a client method does when it is called: it fails before any request
\* (kind = "threw"), or it issues exactly one request (kind = "request") whose
\* body field `field` it returns.
ClientThrew(err) == [kind |-> "threw", method |-> NoText, field |-> NoText, err |-> err]
ClientRequest(method, field) == [kind |-> "request", method |-> method, field |-> field, err |-> NoError]
ClientValue(data) == [kind |-> "value", method |-> NoText, field |-> data, err |-> NoError]

listDataSources == ClientRequest("listDataSources", "dataSources")

getDataSource(dataSourceId) ==
    IF dataSourceId = NoId
      THEN ClientThrew(MkError("Error", "getDataSource() requires a dataSourceId", 0, NoText))
      ELSE ClientRequest("getDataSource", "dataSource")

getDataSourceEntries(dataSourceId) ==
    IF dataSourceId = NoId
      THEN ClientThrew(MkError("Error", "getDataSourceEntries() requires a dataSourceId", 0, NoText))
      ELSE ClientRequest("getDataSourceEntries", "entries")

listMedia == ClientRequest("listMedia", "folders,files")

getMediaFile(fileId) ==
    IF fileId = NoId
      THEN ClientThrew(MkError("Error", "getMediaFile() requires a fileId", 0, NoText))
      ELSE ClientRequest("getMediaFile", "file")

\* ---------------------------------------------------------------------
\* ToolExecutor
\* ---------------------------------------------------------------------
\* Reading a property of null: the TypeError a handler raises on null arguments.
NullArgsError == MkError("TypeError", "Cannot read properties of null", 0, NoText)
NotAFunctionError == MkError("TypeError", "handler is not a function", 0, NoText)

\* this._handlers[toolName]: the dispatch map is a plain object, so the lookup
\* also finds what the object inherits from Object.prototype.
\* "own": one of the five handlers; "function": an inherited function;
\* "object": an inherited non-callable value; "undefined": nothing found.
HandlerLookup(toolName) ==
    CASE toolName \in HandlerNames -> "own"
      [] toolName = "constructor" -> "function"
      [] toolName = "__proto__" -> "object"
      [] OTHER -> "undefined"

Handler_Swapped(toolName, args) ==
    CASE toolName = "list_data_sources" -> listDataSources
      [] toolName = "get_data_source" ->
           IF args.isNull THEN ClientThrew(NullArgsError) ELSE getDataSourceEntries(args.dataSourceId)
      [] toolName = "get_data_source_entries" ->
           IF args.isNull THEN ClientThrew(NullArgsError) ELSE getDataSource(args.dataSourceId)
      [] toolName = "list_media" ->
           IF args.isNull THEN ClientThrew(NullArgsError) ELSE listMedia
      [] OTHER ->
           IF args.isNull THEN ClientThrew(NullArgsError) ELSE getMediaFile(args.fileId)

\* The five handlers of the dispatch map.
Handler(toolName, args) ==
    CASE toolName = "list_data_sources" -> listDataSources
      [] toolName = "get_data_source" ->
           IF args.isNull THEN ClientThrew(NullArgsError) ELSE getDataSource(args.dataSourceId)
      [] toolName = "get_data_source_entries" ->
           IF args.isNull THEN ClientThrew(NullArgsError) ELSE getDataSourceEntries(args.dataSourceId)
      [] toolName = "list_media" ->
           IF args.isNull THEN ClientThrew(NullArgsError) ELSE listMedia
      [] OTHER ->
           IF args.isNull THEN ClientThrew(NullArgsError) ELSE getMediaFile(args.fileId)

\* handler(args) for whatever the lookup found.
InvokeHandler(toolName, args) ==
    CASE HandlerLookup(toolName) = "own" -> Handler(toolName, args)
      [] HandlerLookup(toolName) = "function" -> ClientValue("Object(args)")
      [] OTHER -> ClientThrew(NotAFunctionError)

\* Tool results.
DataResult(data) ==
    [error |-> FALSE, message |-> NoText, hasStatus |-> FALSE, statusCode |-> 0,
     details |-> NoText, data |-> data]
NoResult == DataResult(NoText)

formatError_AnyError(err) ==
    [error |-> TRUE, message |-> err.message,
     hasStatus |-> TRUE,
     statusCode |-> err.statusCode,
     details |-> err.responseBody,
     data |-> NoText]

formatError(err) ==
    [error |-> TRUE, message |-> err.message,
     hasStatus |-> (err.name = "FlipletApiError"),
     statusCode |-> IF err.name = "FlipletApiError" THEN err.statusCode ELSE 0,
     details |-> IF err.name = "FlipletApiError" THEN err.responseBody ELSE NoText,
     data |-> NoText]

\* execute(toolName, args) up to its first wait.
\*   status "rejected":  execute threw 'Unknown tool: <name>'
\*   status "fulfilled": execute returned `result` without any request
\*   status "pending":   the client issued one request (method, field)
UnknownTool(toolName) == <<"Unknown tool: ", toolName>>
NoFailure == <<NoText, NoText>>

ExecState(status, failure, result, call) ==
    [status |-> status, failure |-> failure, result |-> result,
     requested |-> (call.kind = "request"), method |-> call.method, field |-> call.field]

execute_Uncaught(toolName, args) ==
    IF HandlerLookup(toolName) = "undefined"
      THEN ExecState("rejected", UnknownTool(toolName), NoResult, ClientValue(NoText))
      ELSE LET call == InvokeHandler(toolName, args) IN
           CASE call.kind = "request" -> ExecState("pending", NoFailure, NoResult, call)
             [] call.kind = "threw" -> ExecState("rejected", <<call.err.name, call.err.message>>, NoResult, call)
             [] OTHER -> ExecState("fulfilled", NoFailure, DataResult(call.field), call)

execute(toolName, args) ==
    IF HandlerLookup(toolName) = "undefined"
      THEN ExecState("rejected", UnknownTool(toolName), NoResult, ClientValue(NoText))
      ELSE LET call == InvokeHandler(toolName, args) IN
           CASE call.kind = "request" -> ExecState("pending", NoFailure, NoResult, call)
             [] call.kind = "threw" -> ExecState("fulfilled", NoFailure, formatError(call.err), call)
             [] OTHER -> ExecState("fulfilled", NoFailure, DataResult(call.field), call)

executeSettle_Rethrow(field, outcome) ==
    LET r == Request(outcome) IN
    IF r.threw THEN [status |-> "rejected", failure |-> <<r.err.name, r.err.message>>, result |-> NoResult]
               ELSE [status |-> "fulfilled", failure |-> NoFailure, result |-> DataResult(field)]

\* execute after its request settled with `outcome`: the awaited handler
\* returned the body's field, or threw and the catch formatted the error.
executeSettle(field, outcome) ==
    LET r == Request(outcome) IN
    IF r.threw THEN [status |-> "fulfilled", failure |-> NoFailure, result |-> formatError(r.err)]
               ELSE [status |-> "fulfilled", failure |-> NoFailure, result |-> DataResult(field)]

\* ---------------------------------------------------------------------
\* Messages
\* ---------------------------------------------------------------------
\* A content string is either plain text or a serialized tool result.
Text(t) == [kind |-> "text", text |-> t, value |-> NoResult]
JSONStringify(result) == [kind |-> "json", text |-> NoText, value |-> result]

ToolMessage_NoId(id, result) == [role |-> "tool", content |-> JSONStringify(result), tool_calls |-> <<>>, tool_call_id |-> NoId]

SystemPrompt == [role |-> "system", content |-> Text("You are a Fliplet App Assistant."),
                 tool_calls |-> <<>>, tool_call_id |-> NoId]

UserMessage(t) == [role |-> "user", content |-> Text(t), tool_calls |-> <<>>, tool_call_id |-> NoId]
AssistantText_NoContent(t) == [role |-> "assistant", content |-> Text(NoText), tool_calls |-> <<>>, tool_call_id |-> NoId]
AssistantText(t) == [role |-> "assistant", content |-> Text(t), tool_calls |-> <<>>, tool_call_id |-> NoId]
\* The model's tool-call message, pushed as received (its content is null).
AssistantToolCalls(tcs) == [role |-> "assistant", content |-> Text(NoText), tool_calls |-> tcs, tool_call_id |-> NoId]
ToolMessage(id, result) == [role |-> "tool", content |-> JSONStringify(result), tool_calls |-> <<>>, tool_call_id |-> id]

\* What the model may ask for in one tool call.
ToolCallChoices ==
    {<<"list_data_sources", "{}">>,
     <<"list_media", "null">>,
     <<"get_media_file", "{}">>,
     <<"get_data_source_entries", "{\"dataSourceId\":">>,
     <<"nonexistent_tool", "{}">>,
     <<"__proto__", "{}">>}

\* ---------------------------------------------------------------------
\* ChatEngine
\* ---------------------------------------------------------------------
VARIABLES
    history,        \* this._history
    maxIterations,  \* this._maxIterations
    pc,             \* where chat() is: "idle", "awaitModel", "dispatch"
    iterations,     \* the local counter of chat()
    sent,           \* messages of the latest model call
    calls,          \* the tool calls of the latest round and how far each got
    outcome,        \* how the latest chat() ended; none once reset() was called after it
    histAtStart,    \* the history when the latest chat() was invoked
    userMessage,    \* the argument of the latest chat()
    rounds,         \* sizes of the rounds the latest chat() completed
    responses,      \* what the model answered to each model call of the latest chat()
    executions,     \* execute() invocations made by the latest chat()
    modelCalls,     \* model calls made by the latest chat()
    chats,          \* chat() invocations so far
    issued,         \* tool calls received from the model so far (also the id source)
    tools,          \* this._tools
    sentTools       \* the tools field of the latest model call

engineVars == <<history, maxIterations, pc, iterations, sent, calls, outcome,
                histAtStart, userMessage, rounds, responses, executions, modelCalls,
                chats, issued, tools, sentTools>>

\* getHistory() and its callers: the message objects and the arrays that
\* refer to them.
VARIABLES
    heap,           \* the message objects allocated so far, by reference
    historyRefs,    \* this._history as an array of references
    snapshot,       \* the array the latest getHistory() returned, as its caller holds it
    handedOut,      \* whether getHistory() has returned an array yet
    snapOp          \* the latest operation on the history or on the returned array

snapshotVars == <<heap, historyRefs, snapshot, handedOut, snapOp>>

\* SessionManager
VARIABLES
    sessions,       \* this._sessions, in insertion order
    maxSessions,    \* this._maxSessions
    sessionTtlMs,   \* this._sessionTtlMs
    now,            \* Date.now()
    created,        \* calls of the engine factory so far; engines are numbered by them
    gone,           \* per session id, the engine it lost last and what removed it
    smOp,           \* the latest operation on the manager and what it returned
    cleanupInterval \* whether this._cleanupInterval holds a running timer

sessionVars == <<sessions, maxSessions, sessionTtlMs, now, created, gone, smOp, cleanupInterval>>

\* The server: its requests and the engines the factory made for it
VARIABLES
    received,       \* HTTP requests received so far; requests are numbered by arrival
    inflight,       \* the POST /api/chat requests awaiting engine.chat()
    exchange,       \* the latest request accepted or response sent
    uuids,          \* calls of generateId() so far
    hist            \* per engine the factory made, its _history

serverVars == <<received, inflight, exchange, uuids, hist>>

\* --- the Fliplet client called on its own ---
VARIABLES
    client,         \* the invocation of a client method under way, or the last one
    executor        \* the execute() of the ToolExecutor under way, or the last one

clientVars == <<client, executor>>

vars == <<engineVars, snapshotVars, sessionVars, serverVars, clientVars>>

\* Session ids callers may pass; the empty string is the one falsy string.
SessionIds == {"", "a", "b"}

\* The ids generateId() returns, in the order of its calls: crypto.randomUUID()
\* never returns an id that is in use.
GeneratedIds == <<"uuid-1", "uuid-2", "uuid-3", "uuid-4">>

\* A session id that is a JSON object: express.json() builds a new object for
\* every request body, and a Map tells object keys apart by identity.
\* ObjectKeys[n] is the object that request n carries; on the wire each of
\* them reads ObjectText.
ObjectText == "{\"k\":1}"
ObjectKeys == <<"object-1", "object-2", "object-3", "object-4">>

AllIds == SessionIds \cup {GeneratedIds[i] : i \in DOMAIN GeneratedIds}
                     \cup {ObjectKeys[i] : i \in DOMAIN ObjectKeys}

\* Engines are numbered by the factory call that made them.
Engines == 1..MaxCreated

NoEngine == 0
NeverGone == [engine |-> NoEngine, by |-> "none"]
NoOp == [op |-> "none", id |-> NoText, engine |-> NoEngine, hit |-> FALSE,
         removed |-> 0, oldEngine |-> NoEngine, oldBy |-> "none"]

\* No history array has been handed out and nothing is allocated.
SnapshotUnused ==
    /\ heap = <<>>
    /\ historyRefs = <<>>
    /\ snapshot = <<>>
    /\ handedOut = FALSE
    /\ snapOp = "none"

\* A server that receives no request.
NoExchange ==
    [event |-> "none", n |-> 0, route |-> NoText,
     message |-> [type |-> "none", text |-> NoText, length |-> 0], supplied |-> NoText,
     sid |-> NoText, engine |-> NoEngine, thrown |-> NoText, status |-> 0, error |-> NoText,
     response |-> NoText, sessionId |-> NoText]

NoInvocation ==
    [pc |-> "idle", method |-> NoText, arg |-> NoText, fetches |-> 0, parses |-> 0,
     threw |-> FALSE, err |-> NoError, calls |-> 0]

\* No execute() has been called.
NoExecution ==
    [pc |-> "idle", toolName |-> NoText, args |-> JSONParse("{}"), invoked |-> <<>>,
     caught |-> NoError, status |-> NoText, failure |-> NoFailure, result |-> NoResult,
     requested |-> FALSE, method |-> NoText, field |-> NoText, executions |-> 0]

ClientUnused == client = NoInvocation /\ executor = NoExecution

ServerUnused ==
    /\ received = 0
    /\ inflight = {}
    /\ exchange = NoExchange
    /\ uuids = 0
    /\ hist = [e \in Engines |-> <<>>]

\* A manager nobody calls.
SessionsUnused ==
    /\ sessions = <<>>
    /\ maxSessions = 1
    /\ sessionTtlMs = 1
    /\ now = 0
    /\ created = 0
    /\ gone = [id \in {} |-> NeverGone]
    /\ smOp = NoOp
    /\ cleanupInterval = TRUE

Pending == [kind |-> "pending", text |-> NoText, failure |-> NoFailure]
Returned(t) == [kind |-> "returned", text |-> t, failure |-> NoFailure]
Threw(f) == [kind |-> "threw", text |-> NoText, failure |-> f]
NoOutcome == [kind |-> "none", text |-> NoText, failure |-> NoFailure]

ModelCallError == <<"APIError", "Rate limit exceeded">>
ParseFailure(arguments) == <<"SyntaxError", arguments>>

\* The tool definitions handed to the engine, by name.
ToolDefinitions == <<"list_data_sources", "get_data_source", "get_data_source_entries",
                     "list_media", "get_media_file">>

ToolsField_AlwaysPresent(ts) == [present |-> TRUE, list |-> ts]

\* The tools field of a model call: left out when the list is empty.
ToolsField(ts) == IF Len(ts) > 0 THEN [present |-> TRUE, list |-> ts]
                                 ELSE [present |-> FALSE, list |-> <<>>]
NothingSent == [present |-> FALSE, list |-> <<>>]

\* The engine after construction; maxIterations is the configured cap and
\* tools the configured tool list, which may be empty.
EngineInit ==
    /\ history = <<>>
    /\ maxIterations \in 1..MaxCap
    /\ tools \in {<<>>, ToolDefinitions}
    /\ sentTools = NothingSent
    /\ pc = "idle"
    /\ iterations = 0
    /\ sent = <<>>
    /\ calls = <<>>
    /\ outcome = NoOutcome
    /\ histAtStart = <<>>
    /\ userMessage = NoText
    /\ rounds = <<>>
    /\ responses = <<>>
    /\ executions = 0
    /\ modelCalls = 0
    /\ chats = 0
    /\ issued = 0

Init == EngineInit /\ SnapshotUnused /\ SessionsUnused /\ ServerUnused /\ ClientUnused

LoopHead_ExtraCall(h, it, mc) ==
    IF it <= maxIterations
      THEN /\ iterations' = it + 1
           /\ history' = h
           /\ sent' = <<SystemPrompt>> \o h
           /\ sentTools' = ToolsField(tools)
           /\ modelCalls' = mc + 1
           /\ pc' = "awaitModel"
           /\ outcome' = Pending
      ELSE /\ iterations' = it
           /\ history' = Append(h, AssistantText(SafetyMessage))
           /\ sent' = sent
           /\ sentTools' = sentTools
           /\ modelCalls' = mc
           /\ pc' = "idle"
           /\ outcome' = Returned(SafetyMessage)

LoopHead_NoGuard(h, it, mc) ==
    /\ iterations' = it + 1
    /\ history' = h
    /\ sent' = <<SystemPrompt>> \o h
    /\ sentTools' = ToolsField(tools)
    /\ modelCalls' = mc + 1
    /\ pc' = "awaitModel"
    /\ outcome' = Pending

\* The head of the while loop, reached with history h, counter it and mc model
\* calls made: either the next model call is issued or the safety message is
\* appended and returned.
LoopHead(h, it, mc) ==
    IF it < maxIterations
      THEN /\ iterations' = it + 1
           /\ history' = h
           /\ sent' = <<SystemPrompt>> \o h
           /\ sentTools' = ToolsField(tools)
           /\ modelCalls' = mc + 1
           /\ pc' = "awaitModel"
           /\ outcome' = Pending
      ELSE /\ iterations' = it
           /\ history' = Append(h, AssistantText(SafetyMessage))
           /\ sent' = sent
           /\ sentTools' = sentTools
           /\ modelCalls' = mc
           /\ pc' = "idle"
           /\ outcome' = Returned(SafetyMessage)

Chat_FreshHistory(msg) ==
    /\ pc = "idle"
    /\ chats < MaxChats
    /\ chats' = chats + 1
    /\ histAtStart' = history
    /\ userMessage' = msg
    /\ rounds' = <<>>
    /\ responses' = <<>>
    /\ executions' = 0
    /\ LoopHead(<<UserMessage(msg)>>, 0, 0)
    /\ UNCHANGED <<maxIterations, tools, calls, issued>>
    /\ UNCHANGED <<snapshotVars, sessionVars, serverVars, clientVars>>

\* chat(userMessage) up to its first model call.
Chat(msg) ==
    /\ pc = "idle"
    /\ chats < MaxChats
    /\ chats' = chats + 1
    /\ histAtStart' = history
    /\ userMessage' = msg
    /\ rounds' = <<>>
    /\ responses' = <<>>
    /\ executions' = 0
    /\ LoopHead(Append(history, UserMessage(msg)), 0, 0)
    /\ UNCHANGED <<maxIterations, tools, calls, issued>>
    /\ UNCHANGED <<snapshotVars, sessionVars, serverVars, clientVars>>

ModelFails_Rollback ==
    /\ pc = "awaitModel"
    /\ pc' = "idle"
    /\ history' = histAtStart
    /\ outcome' = Threw(ModelCallError)
    /\ responses' = Append(responses, [kind |-> "error", text |-> NoText])
    /\ UNCHANGED <<maxIterations, tools, iterations, sent, sentTools, calls, histAtStart,
                   userMessage, rounds, executions, modelCalls, chats, issued>>
    /\ UNCHANGED <<snapshotVars, sessionVars, serverVars, clientVars>>

\* The model call rejects: chat() rejects with the same error.
ModelFails ==
    /\ pc = "awaitModel"
    /\ pc' = "idle"
    /\ outcome' = Threw(ModelCallError)
    /\ responses' = Append(responses, [kind |-> "error", text |-> NoText])
    /\ UNCHANGED <<history, maxIterations, tools, iterations, sent, sentTools, calls, histAtStart,
                   userMessage, rounds, executions, modelCalls, chats, issued>>
    /\ UNCHANGED <<snapshotVars, sessionVars, serverVars, clientVars>>

ModelText_NoPush(t) ==
    /\ pc = "awaitModel"
    /\ pc' = "idle"
    /\ outcome' = Returned(t)
    /\ responses' = Append(responses, [kind |-> "text", text |-> t])
    /\ UNCHANGED <<history, maxIterations, tools, iterations, sent, sentTools, calls, histAtStart,
                   userMessage, rounds, executions, modelCalls, chats, issued>>
    /\ UNCHANGED <<snapshotVars, sessionVars, serverVars, clientVars>>

\* The model answers with text and no tool calls.
ModelText(t) ==
    /\ pc = "awaitModel"
    /\ history' = Append(history, AssistantText(t))
    /\ pc' = "idle"
    /\ outcome' = Returned(t)
    /\ responses' = Append(responses, [kind |-> "text", text |-> t])
    /\ UNCHANGED <<maxIterations, tools, iterations, sent, sentTools, calls, histAtStart,
                   userMessage, rounds, executions, modelCalls, chats, issued>>
    /\ UNCHANGED <<snapshotVars, sessionVars, serverVars, clientVars>>

DispatchOne_CatchParse(tc) ==
    LET args == JSONParse(tc.arguments)
        e == IF args.ok THEN execute(tc.name, args)
                        ELSE ExecState("fulfilled", NoFailure,
                                       formatError(MkError("SyntaxError", "Unexpected end of JSON input", 0, NoText)),
                                       ClientValue(NoText))
    IN [id |-> tc.id, name |-> tc.name, arguments |-> tc.arguments,
        executed |-> args.ok, status |-> e.status, failure |-> e.failure,
        result |-> e.result, requested |-> e.requested, method |-> e.method,
        field |-> e.field, settled |-> 0, reply |-> NoText]

\* One callback of the map over tool_calls, up to its first wait.
DispatchOne(tc) ==
    LET args == JSONParse(tc.arguments)
        e == IF args.ok THEN execute(tc.name, args)
                        ELSE ExecState("rejected", ParseFailure(tc.arguments), NoResult, ClientValue(NoText))
    IN [id |-> tc.id, name |-> tc.name, arguments |-> tc.arguments,
        executed |-> args.ok, status |-> e.status, failure |-> e.failure,
        result |-> e.result, requested |-> e.requested, method |-> e.method,
        field |-> e.field, settled |-> 0, reply |-> NoText]

IsParseFailure(c) == c.status = "rejected" /\ ~c.executed

\* The rejection Promise.all settles with: the callback that threw at
\* JSON.parse is already rejected when Promise.all subscribes, a callback whose
\* execute() rejected is rejected one microtask later.
FirstRejection(cs) ==
    LET parse == {i \in DOMAIN cs : IsParseFailure(cs[i])}
        rej == {i \in DOMAIN cs : cs[i].status = "rejected"}
        from == IF parse # {} THEN parse ELSE rej
        first == CHOOSE i \in from : \A j \in from : i <= j
    IN cs[first].failure

AllFulfilled_Any(cs) == \E i \in DOMAIN cs : cs[i].status = "fulfilled"

AllFulfilled(cs) == \A i \in DOMAIN cs : cs[i].status = "fulfilled"
AnyRejected(cs) == \E i \in DOMAIN cs : cs[i].status = "rejected"

\* Position of call i when the calls are taken in the order they settled.
SettleRank(cs, i) ==
    1 + Cardinality({j \in DOMAIN cs : \/ cs[j].settled < cs[i].settled
                                       \/ cs[j].settled = cs[i].settled /\ j < i})

ToolResults_FirstCome(cs) ==
    [r \in DOMAIN cs |-> LET i == CHOOSE j \in DOMAIN cs : SettleRank(cs, j) = r
                         IN ToolMessage(cs[i].id, cs[i].result)]

\* The tool results in the order of the tool calls.
ToolResults(cs) == [i \in DOMAIN cs |-> ToolMessage(cs[i].id, cs[i].result)]

Join_DropResults(h, cs) ==
    /\ rounds' = Append(rounds, Len(cs))
    /\ LoopHead(h, iterations, modelCalls)

\* Promise.all resolved: push the results and go round the loop.
Join(h, cs) ==
    /\ rounds' = Append(rounds, Len(cs))
    /\ LoopHead(h \o ToolResults(cs), iterations, modelCalls)

ModelToolCalls_PopsOnFailure(choice) ==
    /\ pc = "awaitModel"
    /\ sentTools.present
    /\ issued + Len(choice) <= MaxToolCalls
    /\ LET tcs == [i \in DOMAIN choice |->
                     [id |-> issued + i, name |-> choice[i][1], arguments |-> choice[i][2]]]
           h == Append(history, AssistantToolCalls(tcs))
           cs == [i \in DOMAIN tcs |-> DispatchOne(tcs[i])]
       IN /\ calls' = cs
          /\ issued' = issued + Len(choice)
          /\ responses' = Append(responses, [kind |-> "tool_calls", text |-> NoText])
          /\ executions' = executions + Cardinality({i \in DOMAIN cs : cs[i].executed})
          /\ IF AnyRejected(cs)
               THEN /\ history' = history
                    /\ pc' = "idle"
                    /\ outcome' = Threw(FirstRejection(cs))
                    /\ UNCHANGED <<iterations, sent, sentTools, rounds, modelCalls>>
               ELSE IF AllFulfilled(cs)
                 THEN Join(h, cs)
                 ELSE /\ history' = h
                      /\ pc' = "dispatch"
                      /\ UNCHANGED <<iterations, sent, sentTools, rounds, modelCalls, outcome>>
    /\ UNCHANGED <<maxIterations, tools, histAtStart, userMessage, chats>>
    /\ UNCHANGED <<snapshotVars, sessionVars, serverVars, clientVars>>

\* The model answers with tool calls: push its message and dispatch them all.
\* A model that was offered no tools has none to call.
ModelToolCalls(choice) ==
    /\ pc = "awaitModel"
    /\ sentTools.present
    /\ issued + Len(choice) <= MaxToolCalls
    /\ LET tcs == [i \in DOMAIN choice |->
                     [id |-> issued + i, name |-> choice[i][1], arguments |-> choice[i][2]]]
           h == Append(history, AssistantToolCalls(tcs))
           cs == [i \in DOMAIN tcs |-> DispatchOne(tcs[i])]
       IN /\ calls' = cs
          /\ issued' = issued + Len(choice)
          /\ responses' = Append(responses, [kind |-> "tool_calls", text |-> NoText])
          /\ executions' = executions + Cardinality({i \in DOMAIN cs : cs[i].executed})
          /\ IF AnyRejected(cs)
               THEN /\ history' = h
                    /\ pc' = "idle"
                    /\ outcome' = Threw(FirstRejection(cs))
                    /\ UNCHANGED <<iterations, sent, sentTools, rounds, modelCalls>>
               ELSE IF AllFulfilled(cs)
                 THEN Join(h, cs)
                 ELSE /\ history' = h
                      /\ pc' = "dispatch"
                      /\ UNCHANGED <<iterations, sent, sentTools, rounds, modelCalls, outcome>>
    /\ UNCHANGED <<maxIterations, tools, histAtStart, userMessage, chats>>
    /\ UNCHANGED <<snapshotVars, sessionVars, serverVars, clientVars>>

\* The request of tool call i settles with reply o, as the k-th of its round.
\* The calls of a round whose chat() already rejected settle as well; their
\* results reach nobody.
\* When it was the last one the round was waiting for, the round is joined;
\* a rejection would settle Promise.all at once.
RequestSettles(i, o) ==
    /\ i \in DOMAIN calls
    /\ calls[i].status = "pending"
    /\ LET e == executeSettle(calls[i].field, o)
           k == 1 + Cardinality({j \in DOMAIN calls : calls[j].settled > 0})
           cs == [calls EXCEPT ![i].status = e.status, ![i].failure = e.failure,
                               ![i].result = e.result, ![i].settled = k, ![i].reply = o]
       IN /\ calls' = cs
          /\ IF pc = "dispatch" /\ AnyRejected(cs)
               THEN /\ pc' = "idle"
                    /\ outcome' = Threw(FirstRejection(cs))
                    /\ UNCHANGED <<history, iterations, sent, sentTools, rounds, modelCalls>>
               ELSE IF pc = "dispatch" /\ AllFulfilled(cs)
                 THEN Join(history, cs)
                 ELSE UNCHANGED <<history, pc, iterations, sent, sentTools, rounds, modelCalls, outcome>>
    /\ UNCHANGED <<maxIterations, tools, histAtStart, userMessage, responses, executions,
                   chats, issued>>
    /\ UNCHANGED <<snapshotVars, sessionVars, serverVars, clientVars>>

Reset_KeepsHistory ==
    /\ pc = "idle"
    /\ outcome' = NoOutcome
    /\ UNCHANGED <<history, maxIterations, tools, pc, iterations, sent, sentTools, calls, histAtStart,
                   userMessage, rounds, responses, executions, modelCalls, chats, issued>>
    /\ UNCHANGED <<snapshotVars, sessionVars, serverVars, clientVars>>

\* reset(), called while no chat() of this engine is in flight.
Reset ==
    /\ pc = "idle"
    /\ history' = <<>>
    /\ outcome' = NoOutcome
    /\ UNCHANGED <<maxIterations, tools, pc, iterations, sent, sentTools, calls, histAtStart,
                   userMessage, rounds, responses, executions, modelCalls, chats, issued>>
    /\ UNCHANGED <<snapshotVars, sessionVars, serverVars, clientVars>>

CallChoices == UNION {[1..k -> ToolCallChoices] : k \in 1..MaxCalls}

\* The model answers only a call that is outstanding, and only the requests of
\* the latest round can settle.
Next ==
    \/ \E msg \in UserMessages : Chat(msg)
    \/ ModelFails
    \/ \E t \in AnswerTexts : ModelText(t)
    \/ \E choice \in (IF pc = "awaitModel" THEN CallChoices ELSE {}) : ModelToolCalls(choice)
    \/ \E i \in DOMAIN calls, o \in RequestOutcomes : RequestSettles(i, o)
    \/ Reset

Spec == Init /\ [][Next]_vars

\* ---------------------------------------------------------------------
\* Properties
\* ---------------------------------------------------------------------
\* The latest chat() has ended and nothing was called on the engine since.
Terminated == pc = "idle" /\ outcome.kind \in {"returned", "threw"}

\* Every model call of the latest chat() was answered with tool calls.
OnlyToolCallResponses ==
    /\ responses # <<>>
    /\ \A i \in DOMAIN responses : responses[i].kind = "tool_calls"

LastResponse == responses[Len(responses)]

\* The messages the latest chat() added to the history.
Added == SubSeq(history, Len(histAtStart) + 1, Len(history))
Roles(msgs) == [i \in DOMAIN msgs |-> msgs[i].role]

RECURSIVE RoundRoles(_)
RoundRoles(rs) ==
    IF rs = <<>> THEN <<>>
    ELSE <<"assistant">> \o [i \in 1..Head(rs) |-> "tool"] \o RoundRoles(Tail(rs))

RECURSIVE RoundsLength(_)
RoundsLength(rs) == IF rs = <<>> THEN 0 ELSE 1 + Head(rs) + RoundsLength(Tail(rs))

\* C1 as stated: when every model call is answered with tool calls, chat()
\* returns the safety message after at most cap+1 model calls.
C1_Original ==
    (Terminated /\ OnlyToolCallResponses) =>
        /\ outcome = Returned(SafetyMessage)
        /\ modelCalls <= maxIterations + 1

\* C1 as amended: a chat() never makes more than cap+1 model calls; when every
\* model call is answered with tool calls it ends either by returning the
\* safety message after cap complete rounds, or by rejecting because a tool
\* call of some round had unparsable arguments or a name execute() rejects.
C1_SafetyGuard ==
    /\ modelCalls <= maxIterations + 1
    /\ (Terminated /\ OnlyToolCallResponses) =>
          \/ /\ outcome = Returned(SafetyMessage)
             /\ Len(rounds) = maxIterations
             /\ history[Len(history)] = AssistantText(SafetyMessage)
          \/ /\ outcome.kind = "threw"
             /\ outcome.failure[1] \in {"SyntaxError", "Unknown tool: "}
             /\ Len(rounds) < maxIterations

C1_Witness ==
    /\ Terminated
    /\ OnlyToolCallResponses
    /\ outcome = Returned(SafetyMessage)
    /\ maxIterations >= 2
    /\ modelCalls = maxIterations

RoundAppended ==
    LET K == Len(calls)
        tail == IF pc = "idle" THEN 1 ELSE 0
        p == Len(history) - tail - K
    IN /\ p >= 1
       /\ history[p].role = "assistant"
       /\ Len(history[p].tool_calls) = K
       /\ Cardinality({i \in 1..K : calls[i].executed}) = K
       /\ \A i \in 1..K :
             /\ history[p + i].role = "tool"
             /\ history[p + i].tool_call_id = history[p].tool_calls[i].id
             /\ calls[i].id = history[p].tool_calls[i].id
             /\ history[p + i].content = JSONStringify(calls[i].result)

C3_ParallelOrder ==
    [][Len(rounds') = Len(rounds) + 1 =>
          /\ RoundAppended'
          /\ Len(history') - Len(history) =
                Len(calls') + (IF pc = "awaitModel" THEN 1 ELSE 0)
                            + (IF pc' = "idle" THEN 1 ELSE 0)]_vars

\* A joined round of two requests in which the second call settled first.
C3_Witness ==
    /\ pc = "awaitModel"
    /\ rounds # <<>>
    /\ Len(calls) = 2
    /\ calls[1].settled = 2
    /\ calls[2].settled = 1
    /\ calls[1].reply # calls[2].reply

\* C4: a model call that follows a round is issued only when no tool call of
\* that round is still pending, and its messages end with that round's tool
\* results.
C4_StrictSequencing ==
    (pc = "awaitModel" /\ rounds # <<>>) =>
        LET K == Len(calls)
            n == Len(sent)
        IN /\ K = rounds[Len(rounds)]
           /\ sent = <<SystemPrompt>> \o history
           /\ \A i \in 1..K :
                 /\ calls[i].status = "fulfilled"
                 /\ sent[n - K + i].role = "tool"
                 /\ sent[n - K + i].tool_call_id = calls[i].id
                 /\ sent[n - K + i].content = JSONStringify(calls[i].result)

C4_Witness ==
    /\ pc = "awaitModel"
    /\ Len(rounds) = 1
    /\ Len(calls) = 2
    /\ calls[1].requested
    /\ calls[2].requested

\* C5: when the first model response of a chat() has no tool calls, chat()
\* returns that response's text, the history is the one before the call plus
\* the user message and the assistant text, and execute() was not invoked.
C5_TextAnswer ==
    (pc = "idle" /\ outcome # NoOutcome /\ Len(responses) = 1 /\ responses[1].kind = "text") =>
        /\ outcome = Returned(responses[1].text)
        /\ history = histAtStart \o <<UserMessage(userMessage), AssistantText(responses[1].text)>>
        /\ executions = 0

C5_Witness ==
    /\ pc = "idle"
    /\ outcome.kind = "returned"
    /\ Len(responses) = 1
    /\ responses[1].kind = "text"
    /\ histAtStart # <<>>

\* C6: a chat() that ends with a text answer after rounds of K_1..K_R tool
\* calls has added 2 + sum (1 + K_i) messages: the user message, each round's
\* assistant tool-call message followed by its K_i tool results, and the
\* final assistant text.
C6_HistoryGrowth ==
    (pc = "idle" /\ outcome.kind = "returned" /\ LastResponse.kind = "text") =>
        /\ SubSeq(history, 1, Len(histAtStart)) = histAtStart
        /\ Len(Added) = 2 + RoundsLength(rounds)
        /\ Roles(Added) = <<"user">> \o RoundRoles(rounds) \o <<"assistant">>
        /\ Added[1] = UserMessage(userMessage)
        /\ Added[Len(Added)] = AssistantText(outcome.text)
        /\ \A i \in 2..(Len(Added) - 1) :
              Added[i].role = "assistant" => Added[i].tool_calls # <<>>

\* One round of one call: user, assistant with tool call, tool result, answer.
C6_Witness ==
    /\ pc = "idle"
    /\ outcome.kind = "returned"
    /\ LastResponse.kind = "text"
    /\ rounds = <<1>>
    /\ Len(Added) = 4
    /\ Added[3].content.value.data = "dataSources"

\* C7: when a model call fails, chat() rejects with that error and the
\* history is the one before the call, plus the user message, plus the
\* messages of the rounds completed so far; it is what the failed call sent.
C7_ModelFailure ==
    (pc = "idle" /\ outcome # NoOutcome /\ responses # <<>> /\ LastResponse.kind = "error") =>
        /\ outcome = Threw(ModelCallError)
        /\ Len(history) = Len(histAtStart) + 1 + RoundsLength(rounds)
        /\ SubSeq(history, 1, Len(histAtStart)) = histAtStart
        /\ Added[1] = UserMessage(userMessage)
        /\ Roles(Added) = <<"user">> \o RoundRoles(rounds)
        /\ sent = <<SystemPrompt>> \o history

C7_Witness ==
    /\ outcome = Threw(ModelCallError)
    /\ histAtStart # <<>>
    /\ rounds # <<>>

\* C8: when a model response has a tool call whose arguments do not parse,
\* chat() ends there with the parse error: only the assistant message is
\* pushed, no tool message, and no further model call is made.
C8_MalformedArguments ==
    [][(/\ pc = "awaitModel"
        /\ issued' > issued
        /\ \E i \in DOMAIN calls' : ~JSONParse(calls'[i].arguments).ok) =>
          /\ pc' = "idle"
          /\ outcome'.kind = "threw"
          /\ \E i \in DOMAIN calls' :
                /\ ~JSONParse(calls'[i].arguments).ok
                /\ outcome'.failure = <<"SyntaxError", calls'[i].arguments>>
          /\ modelCalls' = modelCalls
          /\ Len(history') = Len(history) + 1
          /\ history'[Len(history')].role = "assistant"
          /\ history'[Len(history')].tool_calls # <<>>]_vars

\* A round that failed at parsing while a sibling's request was in flight.
C8_Witness ==
    /\ pc = "idle"
    /\ outcome.kind = "threw"
    /\ outcome.failure[1] = "SyntaxError"
    /\ Len(calls) = 2
    /\ \E i \in DOMAIN calls : calls[i].status = "pending"

\* C9: execute() with a name that is not one of the five of the dispatch
\* table rejects with 'Unknown tool: <name>', returns no record, issues no
\* request, and the chat() it was called from fails.
C9_UnknownToolRejects ==
    \A i \in DOMAIN calls :
        (calls[i].executed /\ calls[i].name \notin HandlerNames) =>
            /\ calls[i].status = "rejected"
            /\ calls[i].failure = UnknownTool(calls[i].name)
            /\ ~calls[i].requested
            /\ pc # "dispatch"

\* C10: execute() with one of the five tool names never rejects; when the
\* client call fails, it is fulfilled with an error record; a chat() never
\* fails because of it, and the model call after the round carries the record.
ClientFailed(c) == IF c.requested THEN c.reply # "ok" ELSE TRUE

C10_KnownToolNeverRejects ==
    /\ \A i \in DOMAIN calls :
          (calls[i].executed /\ calls[i].name \in HandlerNames) =>
              /\ calls[i].status # "rejected"
              /\ (calls[i].status = "fulfilled" /\ ClientFailed(calls[i])) =>
                    /\ calls[i].result.error
                    /\ calls[i].result.message # NoText
                    /\ calls[i].result.data = NoText
    /\ (outcome.kind = "threw" /\ outcome.failure # ModelCallError) =>
          \E i \in DOMAIN calls :
              \/ ~calls[i].executed
              \/ calls[i].name \notin HandlerNames
    /\ (pc = "awaitModel" /\ rounds # <<>>) =>
          \A i \in DOMAIN calls :
              calls[i].result.error =>
                  \E k \in DOMAIN sent :
                      /\ sent[k].tool_call_id = calls[i].id
                      /\ sent[k].content = JSONStringify(calls[i].result)

\* A round of two known tools, one timed out and one failed validation,
\* after which the next model call was issued.
C10_Witness ==
    /\ pc = "awaitModel"
    /\ rounds # <<>>
    /\ Len(calls) = 2
    /\ \E i \in DOMAIN calls : calls[i].reply = "timeout"
    /\ \E i \in DOMAIN calls :
          /\ calls[i].name = "get_media_file"
          /\ ~calls[i].requested
          /\ calls[i].result.error

\* The tool messages of the calls cs, one per call and in call order.
ResultsOf(cs) == [j \in DOMAIN cs |-> ToolMessage(cs[j].id, cs[j].result)]

\* C11: when the request of one tool call of a round settles, whether with a
\* body, a timeout or another failure, only that call changes: it is fulfilled
\* with a result that is an error exactly when its own request failed, every
\* sibling keeps its state, the round goes on waiting while a sibling is
\* pending, and once all have settled the history gains one tool message per
\* call, each at the position of its call and carrying that call's own result.
C11_FailureIsolation ==
    [][(issued' = issued /\ calls' # calls) =>
         \E i \in DOMAIN calls :
            /\ \A j \in DOMAIN calls \ {i} : calls'[j] = calls[j]
            /\ calls'[i].status = "fulfilled"
            /\ calls'[i].result.error = (calls'[i].reply # "ok")
            /\ (calls'[i].reply = "ok") => (calls'[i].result = DataResult(calls[i].field))
            /\ (pc = "dispatch" /\ \E j \in DOMAIN calls : calls'[j].status = "pending") =>
                   (pc' = "dispatch" /\ history' = history)
            /\ (pc = "dispatch" /\ \A j \in DOMAIN calls : calls'[j].status = "fulfilled") =>
                   /\ Len(history') >= Len(history) + Len(calls)
                   /\ SubSeq(history', Len(history) + 1, Len(history) + Len(calls)) = ResultsOf(calls')
                   /\ rounds' = Append(rounds, Len(calls))]_vars

\* A round of two calls was joined although the first call timed out, after
\* the second had succeeded: both tool messages are in the history in call order.
C11_Witness ==
    /\ rounds # <<>>
    /\ Len(calls) = 2
    /\ calls[1].reply = "timeout"
    /\ calls[2].reply = "ok"
    /\ calls[2].settled < calls[1].settled
    /\ \E p \in 1..Len(history) - 1 :
          /\ history[p] = ToolMessage(calls[1].id, formatError(Request("timeout").err))
          /\ history[p + 1] = ToolMessage(calls[2].id, DataResult("dataSources"))

\* getHistory(): a new array with the messages of the history.
getHistory == [i \in 1..Len(history) |-> history[i]]

\* A step in which reset() ran: nothing but reset() leaves the engine without
\* an outcome of a chat() while it touches neither the calls nor the counters.
ResetStep ==
    /\ pc = "idle"
    /\ outcome' = NoOutcome
    /\ calls' = calls
    /\ chats' = chats

\* C12: right after reset(), whatever the engine held before, getHistory()
\* returns the empty sequence, and the iteration cap and the tool list are the
\* ones the engine was constructed with.
C12_ResetClears ==
    [][ResetStep => /\ getHistory' = <<>>
                    /\ maxIterations' = maxIterations
                    /\ tools' = tools]_vars

\* reset() was called on an engine that had completed a chat() with a round of
\* tool calls.
C12_Witness ==
    /\ outcome = NoOutcome
    /\ chats > 0
    /\ rounds # <<>>
    /\ getHistory = <<>>
    /\ tools = ToolDefinitions

\* ---------------------------------------------------------------------
\* getHistory() and the arrays it hands out
\* ---------------------------------------------------------------------
\* JavaScript arrays hold references: this._history and every array that
\* getHistory() returns are sequences of references into the heap of message
\* objects.  heap[r] holds the current fields of object r.
MaxObjects == 3      \* message objects allocated in one run

\* Messages the engine pushes, and the one a caller makes up.
EngineMessages == {UserMessage(u) : u \in UserMessages} \cup {AssistantText(a) : a \in AnswerTexts}
CallerMessage == UserMessage("made up by the caller")
Tampered == Text("tampered")

\* The messages an array of references shows when read through heap hp.
Deref(hp, refs) == [i \in 1..Len(refs) |-> hp[refs[i]]]

\* An engine on which chat() is never called.
EngineUnused == EngineInit /\ maxIterations = 1 /\ tools = ToolDefinitions

\* this._history.push(message): the engine appends a new message object.
Push(m) ==
    /\ Len(heap) < MaxObjects
    /\ heap' = Append(heap, m)
    /\ historyRefs' = Append(historyRefs, Len(heap) + 1)
    /\ snapOp' = "push"
    /\ UNCHANGED <<snapshot, handedOut>>
    /\ UNCHANGED <<engineVars, sessionVars, serverVars, clientVars>>

\* reset(): this._history becomes a new empty array.
HistoryReset ==
    /\ historyRefs' = <<>>
    /\ snapOp' = "reset"
    /\ UNCHANGED <<heap, snapshot, handedOut>>
    /\ UNCHANGED <<engineVars, sessionVars, serverVars, clientVars>>

\* getHistory(): [...this._history], a new array holding the same references.
GetHistory ==
    /\ snapshot' = [i \in 1..Len(historyRefs) |-> historyRefs[i]]
    /\ handedOut' = TRUE
    /\ snapOp' = "getHistory"
    /\ UNCHANGED <<heap, historyRefs>>
    /\ UNCHANGED <<engineVars, sessionVars, serverVars, clientVars>>

\* The caller pushes a message of its own onto the array it was given.
CallerAdds ==
    /\ handedOut
    /\ Len(heap) < MaxObjects
    /\ heap' = Append(heap, CallerMessage)
    /\ snapshot' = Append(snapshot, Len(heap) + 1)
    /\ snapOp' = "add"
    /\ UNCHANGED <<historyRefs, handedOut>>
    /\ UNCHANGED <<engineVars, sessionVars, serverVars, clientVars>>

\* The caller pops the last element of the array it was given.
CallerRemoves ==
    /\ handedOut
    /\ snapshot # <<>>
    /\ snapshot' = SubSeq(snapshot, 1, Len(snapshot) - 1)
    /\ snapOp' = "remove"
    /\ UNCHANGED <<heap, historyRefs, handedOut>>
    /\ UNCHANGED <<engineVars, sessionVars, serverVars, clientVars>>

\* The caller assigns a message of its own to element i of the array.
CallerReplaces(i) ==
    /\ handedOut
    /\ i \in DOMAIN snapshot
    /\ Len(heap) < MaxObjects
    /\ heap' = Append(heap, CallerMessage)
    /\ snapshot' = [snapshot EXCEPT ![i] = Len(heap) + 1]
    /\ snapOp' = "replace"
    /\ UNCHANGED <<historyRefs, handedOut>>
    /\ UNCHANGED <<engineVars, sessionVars, serverVars, clientVars>>

\* The caller assigns to the content field of the message at element i.
CallerSetsField(i) ==
    /\ handedOut
    /\ i \in DOMAIN snapshot
    /\ heap' = [heap EXCEPT ![snapshot[i]].content = Tampered]
    /\ snapOp' = "setField"
    /\ UNCHANGED <<historyRefs, snapshot, handedOut>>
    /\ UNCHANGED <<engineVars, sessionVars, serverVars, clientVars>>

SnapshotNext ==
    \/ \E m \in EngineMessages : Push(m)
    \/ HistoryReset
    \/ GetHistory
    \/ CallerAdds
    \/ CallerRemoves
    \/ \E i \in 1..MaxObjects : CallerReplaces(i)
    \/ \E i \in 1..MaxObjects : CallerSetsField(i)

\* Nothing has been pushed and no array handed out.
SnapshotInit == EngineUnused /\ SnapshotUnused /\ SessionsUnused /\ ServerUnused /\ ClientUnused

SpecSnapshot == SnapshotInit /\ [][SnapshotNext]_vars

CallerOps == {"add", "remove", "replace", "setField"}
EngineOps == {"push", "reset"}

\* C13 as stated: nothing a caller does to a returned array or to the
\* messages in it changes what getHistory() returns afterwards, and nothing
\* the engine does afterwards changes what a returned array shows.
C13_SnapshotIsolation ==
    [][/\ (snapOp' \in CallerOps) =>
             Deref(heap', historyRefs') = Deref(heap, historyRefs)
       /\ (handedOut /\ snapOp' \in EngineOps) =>
             Deref(heap', snapshot') = Deref(heap, snapshot)]_vars

IsPrefix(s, t) == Len(s) <= Len(t) /\ SubSeq(t, 1, Len(s)) = s

\* C14: every step other than reset() leaves the history it found as a prefix
\* of the history it leaves, and every model call carries, after the system
\* prompt, the whole history, which begins with all that earlier chat() calls
\* left behind.
C14_AppendOnly ==
    [][~ResetStep =>
         /\ IsPrefix(history, history')
         /\ (pc' = "awaitModel") => /\ Len(sent') = 1 + Len(history')
                                    /\ Tail(sent') = history'
                                    /\ IsPrefix(histAtStart', Tail(sent'))]_vars

\* The second chat() is at its first model call; the first chat() had left a
\* user message, a round with its tool message and a final answer, and the
\* call carries all four ahead of the new user message.
C14_Witness ==
    /\ chats = 2
    /\ pc = "awaitModel"
    /\ modelCalls = 1
    /\ Len(histAtStart) >= 4
    /\ Roles(histAtStart) = <<"user", "assistant", "tool", "assistant">>
    /\ SubSeq(sent, 2, Len(histAtStart) + 1) = histAtStart
    /\ sent[Len(sent)] = UserMessage(userMessage)

\* C15: while a model call is outstanding, its messages are the system prompt
\* followed by the whole history as it stands, and its tools field is the
\* configured tool list, or is left out when that list is empty; this holds
\* for the first call of a chat() and for the call after every round.
C15_RequestContents ==
    (pc = "awaitModel") =>
        /\ Len(sent) = 1 + Len(history)
        /\ sent[1] = SystemPrompt
        /\ \A i \in 1..Len(history) : sent[i + 1] = history[i]
        /\ modelCalls = Len(rounds) + 1
        /\ IF tools = <<>>
             THEN ~sentTools.present
             ELSE sentTools.present /\ sentTools.list = tools

\* The model call after a round of two tool calls: it carries the whole tool
\* list again, and the round just appended.
C15_Witness ==
    /\ pc = "awaitModel"
    /\ rounds = <<2>>
    /\ modelCalls = 2
    /\ sentTools.present
    /\ sentTools.list = ToolDefinitions
    /\ Len(sent) = Len(histAtStart) + 5
    /\ Roles(sent) = <<"system">> \o Roles(histAtStart) \o <<"user", "assistant", "tool", "tool">>

\* The assistant messages among msgs that carry no tool calls.
FinalMessages(msgs) == {i \in DOMAIN msgs : msgs[i].role = "assistant" /\ msgs[i].tool_calls = <<>>}

\* C16: when chat() has returned a string, be it the model's answer or the
\* safety message, the last entry of the history is an assistant message
\* without tool calls whose content is the returned string, and it is the only
\* such message this chat() added.
C16_FinalMessage ==
    (pc = "idle" /\ outcome.kind = "returned") =>
        /\ Len(history) = Len(histAtStart) + 1 + RoundsLength(rounds) + 1
        /\ history[Len(history)].role = "assistant"
        /\ history[Len(history)].tool_calls = <<>>
        /\ history[Len(history)].content = Text(outcome.text)
        /\ FinalMessages(Added) = {Len(Added)}

\* chat() returned the safety message after a round of tool calls, and the
\* message is the last entry of the history.
C16_Witness ==
    /\ pc = "idle"
    /\ outcome = Returned(SafetyMessage)
    /\ rounds # <<>>
    /\ history[Len(history)].content = Text(SafetyMessage)
    /\ history[Len(history) - 1].role = "tool"

\* ---------------------------------------------------------------------
\* SessionManager
\* ---------------------------------------------------------------------
\* this._sessions is a Map: it keeps its entries in insertion order, and
\* assigning to the fields of an entry leaves the entry where it is.  It is
\* modelled as the sequence of its entries [id, engine, lastAccessed].
\* Every method runs to completion: no two of them interleave.

Ids(s) == {s[i].id : i \in DOMAIN s}
EngineOf(s, id) == s[CHOOSE i \in DOMAIN s : s[i].id = id].engine
Remove(s, i) == SubSeq(s, 1, i - 1) \o SubSeq(s, i + 1, Len(s))

\* if (oldestId): what JavaScript takes for true among the session ids.
Truthy(id) == id # ""

\* The manager after construction.
ManagerInit ==
    /\ sessions = <<>>
    /\ maxSessions \in 1..MaxSessions
    /\ sessionTtlMs \in 1..MaxTtl
    /\ now = 0
    /\ created = 0
    /\ gone = [id \in {} |-> NeverGone]
    /\ smOp = NoOp
    /\ cleanupInterval = TRUE

\* The entry _evictOldest settles on: the first one, in insertion order, whose
\* lastAccessed no other entry undercuts.
Oldest(s) ==
    CHOOSE i \in DOMAIN s :
        \A j \in DOMAIN s : \/ s[i].lastAccessed < s[j].lastAccessed
                            \/ s[i].lastAccessed = s[j].lastAccessed /\ i <= j

\* _evictOldest(): deletes the entry it settled on if its id is truthy.
evictOldest(s) ==
    IF s = <<>> THEN s
    ELSE IF Truthy(s[Oldest(s)].id) THEN Remove(s, Oldest(s)) ELSE s

Expired_AtTtl(e, t) == t - e.lastAccessed >= sessionTtlMs
\* now - session.lastAccessed > this._sessionTtlMs
Expired(e, t) == t - e.lastAccessed > sessionTtlMs

evictExpired_StopsAtFirst(s, t) ==
    LET expired == {i \in DOMAIN s : Expired(s[i], t)}
    IN IF expired = {} THEN s
       ELSE Remove(s, CHOOSE i \in expired : \A j \in expired : i <= j)

\* _evictExpired(): deletes every entry that was last accessed more than the
\* TTL before t.
evictExpired(s, t) == SelectSeq(s, LAMBDA e : ~Expired(e, t))

\* What id lost last: nothing, for an id that never lost an engine.
Gone(id) == IF id \in DOMAIN gone THEN gone[id] ELSE NeverGone

\* The record of what each id lost when s became t through `by`.
Lost(s, t, by) ==
    [id \in DOMAIN gone \cup (Ids(s) \ Ids(t)) |->
        IF id \in Ids(s) \ Ids(t) THEN [engine |-> EngineOf(s, id), by |-> by] ELSE gone[id]]

getOrCreate_ChecksTtl(id) ==
    /\ LET live == SelectSeq(sessions, LAMBDA e : e.id # id \/ now - e.lastAccessed <= sessionTtlMs)
       IN IF id \in Ids(live)
            THEN /\ sessions' = [i \in DOMAIN sessions |->
                                   IF sessions[i].id = id
                                     THEN [sessions[i] EXCEPT !.lastAccessed = now]
                                     ELSE sessions[i]]
                 /\ smOp' = [op |-> "getOrCreate", id |-> id, engine |-> EngineOf(sessions, id),
                             hit |-> TRUE, removed |-> 0,
                             oldEngine |-> Gone(id).engine, oldBy |-> Gone(id).by]
                 /\ UNCHANGED <<created, gone>>
            ELSE /\ created < MaxCreated
                 /\ LET kept == IF Len(live) >= maxSessions THEN evictOldest(live) ELSE live
                    IN /\ sessions' = Append(kept, [id |-> id, engine |-> created + 1, lastAccessed |-> now])
                       /\ gone' = Lost(sessions, kept, "capacity")
                       /\ smOp' = [op |-> "getOrCreate", id |-> id, engine |-> created + 1,
                                   hit |-> FALSE, removed |-> Len(sessions) - Len(kept),
                                   oldEngine |-> Gone(id).engine, oldBy |-> Gone(id).by]
                 /\ created' = created + 1
    /\ UNCHANGED <<maxSessions, sessionTtlMs, now, cleanupInterval>>

getOrCreate_EvictsFirst(id) ==
    /\ created < MaxCreated \/ id \in Ids(sessions)
    /\ LET kept == IF Len(sessions) >= maxSessions THEN evictOldest(sessions) ELSE sessions
       IN IF id \in Ids(kept)
            THEN /\ sessions' = [i \in DOMAIN kept |->
                                   IF kept[i].id = id
                                     THEN [kept[i] EXCEPT !.lastAccessed = now]
                                     ELSE kept[i]]
                 /\ gone' = Lost(sessions, kept, "capacity")
                 /\ smOp' = [op |-> "getOrCreate", id |-> id, engine |-> EngineOf(sessions, id),
                             hit |-> TRUE, removed |-> Len(sessions) - Len(kept),
                             oldEngine |-> Gone(id).engine, oldBy |-> Gone(id).by]
                 /\ UNCHANGED created
            ELSE /\ created < MaxCreated
                 /\ sessions' = Append(kept, [id |-> id, engine |-> created + 1, lastAccessed |-> now])
                 /\ gone' = Lost(sessions, kept, "capacity")
                 /\ smOp' = [op |-> "getOrCreate", id |-> id, engine |-> created + 1,
                             hit |-> FALSE, removed |-> Len(sessions) - Len(kept),
                             oldEngine |-> Gone(id).engine, oldBy |-> Gone(id).by]
                 /\ created' = created + 1
    /\ UNCHANGED <<maxSessions, sessionTtlMs, now, cleanupInterval>>

getOrCreate_Resurrects(id) ==
    /\ IF id \in Ids(sessions)
         THEN /\ sessions' = [i \in DOMAIN sessions |->
                                IF sessions[i].id = id
                                  THEN [sessions[i] EXCEPT !.lastAccessed = now]
                                  ELSE sessions[i]]
              /\ smOp' = [op |-> "getOrCreate", id |-> id, engine |-> EngineOf(sessions, id),
                          hit |-> TRUE, removed |-> 0,
                          oldEngine |-> Gone(id).engine, oldBy |-> Gone(id).by]
              /\ UNCHANGED <<created, gone>>
         ELSE /\ created < MaxCreated
              /\ LET kept == IF Len(sessions) >= maxSessions THEN evictOldest(sessions) ELSE sessions
                     engine == IF Gone(id).by # "none" THEN Gone(id).engine ELSE created + 1
                 IN /\ sessions' = Append(kept, [id |-> id, engine |-> engine, lastAccessed |-> now])
                    /\ gone' = Lost(sessions, kept, "capacity")
                    /\ smOp' = [op |-> "getOrCreate", id |-> id, engine |-> engine,
                                hit |-> FALSE, removed |-> Len(sessions) - Len(kept),
                                oldEngine |-> Gone(id).engine, oldBy |-> Gone(id).by]
                    /\ created' = IF Gone(id).by # "none" THEN created ELSE created + 1
    /\ UNCHANGED <<maxSessions, sessionTtlMs, now, cleanupInterval>>

\* getOrCreate(sessionId), as far as the manager is concerned.
getOrCreate(id) ==
    /\ IF id \in Ids(sessions)
         THEN /\ sessions' = [i \in DOMAIN sessions |->
                                IF sessions[i].id = id
                                  THEN [sessions[i] EXCEPT !.lastAccessed = now]
                                  ELSE sessions[i]]
              /\ smOp' = [op |-> "getOrCreate", id |-> id, engine |-> EngineOf(sessions, id),
                          hit |-> TRUE, removed |-> 0,
                          oldEngine |-> Gone(id).engine, oldBy |-> Gone(id).by]
              /\ UNCHANGED <<created, gone>>
         ELSE /\ created < MaxCreated
              /\ LET kept == IF Len(sessions) >= maxSessions THEN evictOldest(sessions) ELSE sessions
                 IN /\ sessions' = Append(kept, [id |-> id, engine |-> created + 1, lastAccessed |-> now])
                    /\ gone' = Lost(sessions, kept, "capacity")
                    /\ smOp' = [op |-> "getOrCreate", id |-> id, engine |-> created + 1,
                                hit |-> FALSE, removed |-> Len(sessions) - Len(kept),
                                oldEngine |-> Gone(id).engine, oldBy |-> Gone(id).by]
              /\ created' = created + 1
    /\ UNCHANGED <<maxSessions, sessionTtlMs, now, cleanupInterval>>

GetOrCreate_AlwaysCreates(id) ==
    /\ created < MaxCreated
    /\ LET kept == IF Len(sessions) >= maxSessions THEN evictOldest(sessions) ELSE sessions
           entry == [id |-> id, engine |-> created + 1, lastAccessed |-> now]
           after == IF id \in Ids(kept)
                      THEN [i \in DOMAIN kept |-> IF kept[i].id = id THEN entry ELSE kept[i]]
                      ELSE Append(kept, entry)
       IN /\ sessions' = after
          /\ created' = created + 1
          /\ gone' = Lost(sessions, after, "capacity")
          /\ smOp' = [op |-> "getOrCreate", id |-> id, engine |-> created + 1,
                      hit |-> (id \in Ids(sessions)),
                      removed |-> Cardinality(Ids(sessions) \ Ids(after)),
                      oldEngine |-> Gone(id).engine, oldBy |-> Gone(id).by]
    /\ UNCHANGED <<maxSessions, sessionTtlMs, now, cleanupInterval>>
    /\ UNCHANGED <<engineVars, snapshotVars, clientVars, serverVars>>

\* getOrCreate(sessionId), called on the manager directly.
GetOrCreate(id) ==
    /\ getOrCreate(id)
    /\ UNCHANGED <<engineVars, snapshotVars, clientVars, serverVars>>

\* has(sessionId)
Has(id) ==
    /\ smOp' = [NoOp EXCEPT !.op = "has", !.id = id, !.hit = (id \in Ids(sessions))]
    /\ UNCHANGED <<sessions, maxSessions, sessionTtlMs, now, created, gone, cleanupInterval>>
    /\ UNCHANGED <<engineVars, snapshotVars, clientVars, serverVars>>

Destroy_Clears(id) ==
    /\ LET kept == IF id \in Ids(sessions) THEN <<>> ELSE sessions
       IN /\ sessions' = kept
          /\ gone' = Lost(sessions, kept, "destroy")
          /\ smOp' = [NoOp EXCEPT !.op = "destroy", !.id = id, !.hit = (id \in Ids(sessions)),
                                  !.removed = Len(sessions) - Len(kept)]
    /\ UNCHANGED <<maxSessions, sessionTtlMs, now, created, cleanupInterval>>
    /\ UNCHANGED <<engineVars, snapshotVars, clientVars, received, inflight, uuids, hist>>
    /\ exchange' = NoExchange

\* destroy(sessionId)
Destroy(id) ==
    /\ LET kept == SelectSeq(sessions, LAMBDA e : e.id # id)
       IN /\ sessions' = kept
          /\ gone' = Lost(sessions, kept, "destroy")
          /\ smOp' = [NoOp EXCEPT !.op = "destroy", !.id = id, !.hit = (id \in Ids(sessions)),
                                  !.removed = Len(sessions) - Len(kept)]
    /\ UNCHANGED <<maxSessions, sessionTtlMs, now, created, cleanupInterval>>
    /\ UNCHANGED <<engineVars, snapshotVars, clientVars, received, inflight, uuids, hist>>
    /\ exchange' = NoExchange

EvictExpired_IgnoresStop ==
    /\ LET kept == evictExpired(sessions, now)
       IN /\ sessions' = kept
          /\ gone' = Lost(sessions, kept, "ttl")
          /\ smOp' = [NoOp EXCEPT !.op = "evictExpired", !.removed = Len(sessions) - Len(kept)]
    /\ UNCHANGED <<maxSessions, sessionTtlMs, now, created, cleanupInterval>>
    /\ UNCHANGED <<engineVars, snapshotVars, clientVars, received, inflight, uuids, hist>>
    /\ exchange' = NoExchange

\* The cleanup timer fires: _evictExpired().
EvictExpired ==
    /\ cleanupInterval
    /\ LET kept == evictExpired(sessions, now)
       IN /\ sessions' = kept
          /\ gone' = Lost(sessions, kept, "ttl")
          /\ smOp' = [NoOp EXCEPT !.op = "evictExpired", !.removed = Len(sessions) - Len(kept)]
    /\ UNCHANGED <<maxSessions, sessionTtlMs, now, created, cleanupInterval>>
    /\ UNCHANGED <<engineVars, snapshotVars, clientVars, received, inflight, uuids, hist>>
    /\ exchange' = NoExchange

\* Time passes between two calls.
Tick ==
    /\ now < MaxClock
    /\ now' = now + 1
    /\ smOp' = [NoOp EXCEPT !.op = "tick"]
    /\ UNCHANGED <<sessions, maxSessions, sessionTtlMs, created, gone, cleanupInterval>>
    /\ UNCHANGED <<engineVars, snapshotVars, clientVars, received, inflight, uuids, hist>>
    /\ exchange' = NoExchange

SessionsNext ==
    \/ \E id \in SessionIds : GetOrCreate(id)
    \/ \E id \in SessionIds : Has(id)
    \/ \E id \in SessionIds : Destroy(id)
    \/ EvictExpired
    \/ Tick

SessionsInit == EngineUnused /\ SnapshotUnused /\ ManagerInit /\ ServerUnused /\ ClientUnused

SpecSessions == SessionsInit /\ [][SessionsNext]_vars

\* C17: getOrCreate(id) returns the engine registered under id; when id was
\* registered before the call that is the engine it had and the factory is not
\* called, otherwise the factory is called once and its engine differs from
\* the engine of every other session; and no operation changes the engine of
\* an id that stays registered.
C17_SameEngine ==
    [][/\ (smOp'.op = "getOrCreate") =>
             /\ smOp'.id \in Ids(sessions')
             /\ EngineOf(sessions', smOp'.id) = smOp'.engine
             /\ IF smOp'.id \in Ids(sessions)
                  THEN smOp'.engine = EngineOf(sessions, smOp'.id) /\ created' = created
                  ELSE /\ created' = created + 1
                       /\ \A j \in DOMAIN sessions : sessions[j].engine # smOp'.engine
       /\ \A id \in Ids(sessions) \cap Ids(sessions') :
             EngineOf(sessions', id) = EngineOf(sessions, id)]_vars

\* Two ids were registered with two engines, and a further getOrCreate of the
\* first id returned the first engine without calling the factory.
C17_Witness ==
    /\ smOp.op = "getOrCreate"
    /\ smOp.hit
    /\ created = 2
    /\ Len(sessions) = 2
    /\ smOp.id = sessions[1].id
    /\ smOp.engine = 1
    /\ sessions[2].engine = 2

\* C18 as stated: getOrCreate of an unregistered id on a manager that holds
\* exactly maxSessions sessions removes one session, one whose lastAccessed
\* no other undercuts, keeps all others as they are and appends the new one.
C18_EvictsOldest ==
    [][(smOp'.op = "getOrCreate" /\ ~smOp'.hit /\ Len(sessions) = maxSessions) =>
         \E i \in DOMAIN sessions :
            /\ \A j \in DOMAIN sessions : sessions[i].lastAccessed <= sessions[j].lastAccessed
            /\ sessions' = Append(Remove(sessions, i),
                                  [id |-> smOp'.id, engine |-> smOp'.engine, lastAccessed |-> now])]_vars

\* C19 as stated: the manager never holds more than maxSessions sessions.
C19_CapacityBound == Len(sessions) <= maxSessions

\* C20: a sweep leaves no session that was last accessed more than the TTL
\* before it, so has(id) is false for each of them; and getOrCreate of an id
\* whose session a sweep removed calls the factory again and returns an engine
\* other than the removed one.
C20_TtlSweep ==
    [][/\ (smOp'.op = "evictExpired") =>
             \A i \in DOMAIN sessions :
                (now - sessions[i].lastAccessed > sessionTtlMs) => sessions[i].id \notin Ids(sessions')
       /\ (smOp'.op = "getOrCreate" /\ smOp'.id \notin Ids(sessions) /\ Gone(smOp'.id).by = "ttl") =>
             /\ created' = created + 1
             /\ smOp'.engine = created'
             /\ smOp'.engine # Gone(smOp'.id).engine
             /\ \A id \in SessionIds : smOp'.engine # Gone(id).engine]_vars

\* A sweep removed two sessions at once, and the id of one of them was then
\* registered again with a new engine.
C20_Witness ==
    /\ smOp.op = "getOrCreate"
    /\ ~smOp.hit
    /\ smOp.oldBy = "ttl"
    /\ smOp.oldEngine # NoEngine
    /\ smOp.engine > smOp.oldEngine
    /\ \E id \in SessionIds \ {smOp.id} : Gone(id).by = "ttl"

\* The session registered under id, when s is the registry.
EntryOf(s, id) == s[CHOOSE i \in DOMAIN s : s[i].id = id]

C34_SweepKeepsFresh ==
    [][(smOp'.op = "evictExpired") =>
          /\ \A i \in DOMAIN sessions :
                (now - sessions[i].lastAccessed <= sessionTtlMs) =>
                    \E j \in DOMAIN sessions' : sessions'[j] = sessions[i]
          /\ sessions' = SelectSeq(sessions, LAMBDA e : now - e.lastAccessed <= sessionTtlMs)
          /\ smOp'.removed = Len(sessions) - Len(sessions')
          /\ UNCHANGED <<maxSessions, sessionTtlMs, now, created>>]_vars

\* A sweep removed one session and kept another that had been idle for
\* exactly the TTL.
C34_Witness ==
    /\ smOp.op = "evictExpired"
    /\ smOp.removed = 1
    /\ \E i \in DOMAIN sessions : now - sessions[i].lastAccessed = sessionTtlMs

\* C35: getOrCreate(id) of a registered id removes no session and does not
\* call the factory, whether or not the manager is at capacity: the registry
\* keeps its entries in their order, the entry of id with lastAccessed set to
\* the time of the call and every other entry as it was; has(id) tells whether
\* id is registered and changes nothing of the manager.
C35_HitLeavesRegistry ==
    [][/\ (smOp'.op = "getOrCreate" /\ smOp'.id \in Ids(sessions)) =>
             /\ created' = created
             /\ gone' = gone
             /\ smOp'.removed = 0
             /\ smOp'.engine = EntryOf(sessions, smOp'.id).engine
             /\ sessions' = [i \in DOMAIN sessions |->
                               IF sessions[i].id = smOp'.id
                                 THEN [id |-> sessions[i].id, engine |-> sessions[i].engine,
                                       lastAccessed |-> now]
                                 ELSE sessions[i]]
             /\ UNCHANGED <<maxSessions, sessionTtlMs, now>>
       /\ (smOp'.op = "has") =>
             /\ smOp'.hit = (smOp'.id \in Ids(sessions))
             /\ UNCHANGED <<sessions, maxSessions, sessionTtlMs, now, created, gone,
                            cleanupInterval>>]_vars

\* getOrCreate of a registered id on a manager at capacity: both sessions are
\* still registered and only the one accessed has a new lastAccessed.
C35_Witness ==
    /\ smOp.op = "getOrCreate"
    /\ smOp.hit
    /\ maxSessions = 2
    /\ Len(sessions) = maxSessions
    /\ created = 2
    /\ EntryOf(sessions, smOp.id).lastAccessed = now
    /\ \E i \in DOMAIN sessions : sessions[i].id # smOp.id /\ sessions[i].lastAccessed < now

\* ---------------------------------------------------------------------
\* The server: POST /api/chat and POST /api/reset over the SessionManager
\* ---------------------------------------------------------------------
\* A route handler runs to completion up to its await: POST /api/chat
\* validates, resolves the session, and calls engine.chat(), which pushes the
\* user message before it first waits for the model.  The engine's further
\* work is summed up by how chat() ends: it returns a text after pushing the
\* final assistant message, or it rejects.
MaxRequests == 2     \* HTTP requests in one run

MaxMessageLength == 4000

\* What the manager holds, without the record of its latest operation.
managerVars == <<sessions, maxSessions, sessionTtlMs, now, created, gone, cleanupInterval>>

\* Values of req.body.message, by type, text and length.
Message(type, text, length) == [type |-> type, text |-> text, length |-> length]
MessageInputs ==
    {Message("undefined", NoText, 0),
     Message("number", "42", 0),
     Message("string", "", 0),
     Message("string", "   ", 3),
     Message("string", " hello ", 7),
     Message("string", "long", MaxMessageLength + 1)}

\* String.prototype.trim on the texts above.
Trim(t) == CASE t = "   " -> ""
             [] t = " hello " -> "hello"
             [] OTHER -> t

\* !message || typeof message !== 'string' || message.trim().length === 0
MessageMissing(m) == m.type = "undefined" \/ m.type # "string" \/ m.text = "" \/ Trim(m.text) = ""

BadMessageError == "A non-empty \"message\" string is required in the request body."
TooLongError == "Message exceeds maximum length of 4000 characters."
BadSessionError == "A \"sessionId\" string is required in the request body."
GenericError == "An internal error occurred. Please try again."

\* Values of req.body.sessionId as the client wrote them: absent, a string, or
\* a JSON object.
SuppliedIds == {NoText, "", "a", ObjectText} \cup {GeneratedIds[i] : i \in 1..uuids}

\* typeof sessionId === 'string'
IsString(supplied) == supplied \notin {NoText, ObjectText}

\* The value req.body.sessionId holds in request n.
Parsed(supplied, n) == IF supplied = ObjectText THEN ObjectKeys[n] ELSE supplied

\* res.json(): the text a session id is sent back as.
Sent(id) == IF id \in {ObjectKeys[i] : i \in DOMAIN ObjectKeys} THEN ObjectText ELSE id

\* requestedSessionId || sessionManager.generateId()
UsesSupplied(supplied) == supplied # NoText /\ Truthy(supplied)
resolveSessionId(supplied) ==
    IF UsesSupplied(supplied) THEN Parsed(supplied, received + 1) ELSE GeneratedIds[uuids + 1]

\* How engine.chat() may reject: by name and message of the error.
EngineFailures == {ModelCallError,
                   <<"SyntaxError", "Unexpected end of JSON input">>,
                   <<"Error", "Unknown tool: nonexistent_tool">>}

errorHandler_Leaks(err) == [status |-> 500, error |-> err[2]]
\* The centralized error handler.
errorHandler(err) == [status |-> 500, error |-> GenericError]

Respond_ForgetsEvicted(n, route, m, supplied, sid, engine, status, error, response, sessionId) ==
    [event |-> "responded", n |-> n, route |-> route, message |-> m, supplied |-> supplied,
     sid |-> sid, engine |-> engine, thrown |-> NoText, status |-> status, error |-> error,
     response |-> response,
     sessionId |-> IF sid \in Ids(sessions) THEN sessionId ELSE NoText]
Respond(n, route, m, supplied, sid, engine, status, error, response, sessionId) ==
    [event |-> "responded", n |-> n, route |-> route, message |-> m, supplied |-> supplied,
     sid |-> sid, engine |-> engine, thrown |-> NoText, status |-> status, error |-> error,
     response |-> response, sessionId |-> sessionId]

PostChat_IdFirst(m, supplied) ==
    /\ received < MaxRequests
    /\ received' = received + 1
    /\ IF MessageMissing(m) \/ m.length > MaxMessageLength
         THEN /\ exchange' = Respond(received + 1, "chat", m, NoText, NoText, NoEngine, 400,
                                     IF MessageMissing(m) THEN BadMessageError ELSE TooLongError,
                                     NoText, NoText)
              /\ smOp' = NoOp
              /\ uuids < Len(GeneratedIds)
              /\ uuids' = IF UsesSupplied(supplied) THEN uuids ELSE uuids + 1
              /\ UNCHANGED <<inflight, hist, managerVars>>
         ELSE /\ UsesSupplied(supplied) \/ uuids < Len(GeneratedIds)
              /\ LET sid == resolveSessionId(supplied)
                 IN /\ uuids' = IF UsesSupplied(supplied) THEN uuids ELSE uuids + 1
                    /\ getOrCreate(sid)
                    /\ hist' = [hist EXCEPT ![smOp'.engine] =
                                   Append(@, [role |-> "user", n |-> received + 1])]
                    /\ inflight' = inflight \cup {[n |-> received + 1, sid |-> sid, engine |-> smOp'.engine]}
                    /\ exchange' = [NoExchange EXCEPT !.event = "accepted", !.n = received + 1,
                                       !.route = "chat", !.message = m,
                                       !.supplied = supplied, !.sid = sid, !.engine = smOp'.engine]
    /\ UNCHANGED <<engineVars, snapshotVars, clientVars>>

\* POST /api/chat up to the await of engine.chat().
PostChat(m, supplied) ==
    /\ received < MaxRequests
    /\ received' = received + 1
    /\ IF MessageMissing(m) \/ m.length > MaxMessageLength
         THEN /\ exchange' = Respond(received + 1, "chat", m, NoText, NoText, NoEngine, 400,
                                     IF MessageMissing(m) THEN BadMessageError ELSE TooLongError,
                                     NoText, NoText)
              /\ smOp' = NoOp
              /\ UNCHANGED <<inflight, uuids, hist, managerVars>>
         ELSE /\ UsesSupplied(supplied) \/ uuids < Len(GeneratedIds)
              /\ LET sid == resolveSessionId(supplied)
                 IN /\ uuids' = IF UsesSupplied(supplied) THEN uuids ELSE uuids + 1
                    /\ getOrCreate(sid)
                    /\ hist' = [hist EXCEPT ![smOp'.engine] =
                                   Append(@, [role |-> "user", n |-> received + 1])]
                    /\ inflight' = inflight \cup {[n |-> received + 1, sid |-> sid, engine |-> smOp'.engine]}
                    /\ exchange' = [NoExchange EXCEPT !.event = "accepted", !.n = received + 1,
                                       !.route = "chat", !.message = m,
                                       !.supplied = supplied, !.sid = sid, !.engine = smOp'.engine]
    /\ UNCHANGED <<engineVars, snapshotVars, clientVars>>

ChatReturns_Broadcast(r) ==
    /\ r \in inflight
    /\ inflight' = inflight \ {r}
    /\ hist' = [e \in Engines |-> IF e <= created
                                    THEN Append(hist[e], [role |-> "assistant", n |-> r.n])
                                    ELSE hist[e]]
    /\ exchange' = Respond(r.n, "chat", NoExchange.message, NoText, r.sid, r.engine, 200, NoText, "answer", Sent(r.sid))
    /\ UNCHANGED <<received, uuids, sessions, maxSessions, sessionTtlMs, now, created, gone, cleanupInterval>>
    /\ smOp' = NoOp
    /\ UNCHANGED <<engineVars, snapshotVars, clientVars>>

\* engine.chat() of request r returns: the answer is sent with the session id.
ChatReturns(r) ==
    /\ r \in inflight
    /\ inflight' = inflight \ {r}
    /\ hist' = [hist EXCEPT ![r.engine] = Append(@, [role |-> "assistant", n |-> r.n])]
    /\ exchange' = Respond(r.n, "chat", NoExchange.message, NoText, r.sid, r.engine, 200, NoText, "answer", Sent(r.sid))
    /\ UNCHANGED <<received, uuids, sessions, maxSessions, sessionTtlMs, now, created, gone, cleanupInterval>>
    /\ smOp' = NoOp
    /\ UNCHANGED <<engineVars, snapshotVars, clientVars>>

\* engine.chat() of request r rejects with err: next(err) reaches the error handler.
ChatThrows(r, err) ==
    /\ r \in inflight
    /\ inflight' = inflight \ {r}
    /\ LET res == errorHandler(err)
       IN exchange' = [Respond(r.n, "chat", NoExchange.message, NoText, r.sid, r.engine, res.status, res.error,
                               NoText, NoText) EXCEPT !.thrown = err[2]]
    /\ UNCHANGED <<received, uuids, hist, sessions, maxSessions, sessionTtlMs, now, created, gone, cleanupInterval>>
    /\ smOp' = NoOp
    /\ UNCHANGED <<engineVars, snapshotVars, clientVars>>

PostReset_Creates(supplied) ==
    /\ received < MaxRequests
    /\ received' = received + 1
    /\ IF ~UsesSupplied(supplied) \/ ~IsString(supplied)
         THEN /\ exchange' = Respond(received + 1, "reset", NoExchange.message, supplied, NoText, NoEngine, 400,
                                     BadSessionError, NoText, NoText)
              /\ smOp' = NoOp
              /\ UNCHANGED <<hist, managerVars>>
         ELSE /\ getOrCreate(supplied)
              /\ hist' = [hist EXCEPT ![smOp'.engine] = <<>>]
              /\ exchange' = Respond(received + 1, "reset", NoExchange.message, supplied, supplied, smOp'.engine,
                                     200, NoText, NoText, NoText)
    /\ UNCHANGED <<inflight, uuids>>
    /\ UNCHANGED <<engineVars, snapshotVars, clientVars>>

\* POST /api/reset
PostReset(supplied) ==
    /\ received < MaxRequests
    /\ received' = received + 1
    /\ IF ~UsesSupplied(supplied) \/ ~IsString(supplied)
         THEN /\ exchange' = Respond(received + 1, "reset", NoExchange.message, supplied, NoText, NoEngine, 400,
                                     BadSessionError, NoText, NoText)
              /\ smOp' = NoOp
              /\ UNCHANGED <<hist, managerVars>>
         ELSE IF supplied \in Ids(sessions)
           THEN /\ getOrCreate(supplied)
                /\ hist' = [hist EXCEPT ![smOp'.engine] = <<>>]
                /\ exchange' = Respond(received + 1, "reset", NoExchange.message, supplied, supplied, smOp'.engine,
                                       200, NoText, NoText, NoText)
           ELSE /\ smOp' = [NoOp EXCEPT !.op = "has", !.id = supplied]
                /\ exchange' = Respond(received + 1, "reset", NoExchange.message, supplied, supplied, NoEngine,
                                       200, NoText, NoText, NoText)
                /\ UNCHANGED <<hist, sessions, maxSessions, sessionTtlMs, now, created, gone,
                               cleanupInterval>>
    /\ UNCHANGED <<inflight, uuids>>
    /\ UNCHANGED <<engineVars, snapshotVars, clientVars>>

\* stopCleanup(), as the shutdown of the server calls it.
StopCleanup ==
    /\ cleanupInterval' = FALSE
    /\ smOp' = [NoOp EXCEPT !.op = "stopCleanup"]
    /\ UNCHANGED <<sessions, maxSessions, sessionTtlMs, now, created, gone>>
    /\ UNCHANGED <<engineVars, snapshotVars, clientVars, received, inflight, uuids, hist>>
    /\ exchange' = NoExchange

\* No request arrives for longer than the TTL: every session registered by now
\* is expired when the next event comes.
Idle ==
    /\ now + sessionTtlMs < MaxClock
    /\ now' = now + sessionTtlMs + 1
    /\ smOp' = [NoOp EXCEPT !.op = "tick"]
    /\ exchange' = NoExchange
    /\ UNCHANGED <<sessions, maxSessions, sessionTtlMs, created, gone, cleanupInterval>>
    /\ UNCHANGED <<engineVars, snapshotVars, clientVars, received, inflight, uuids, hist>>

ServerNext ==
    \/ \E m \in MessageInputs, supplied \in SuppliedIds : PostChat(m, supplied)
    \/ \E r \in inflight : ChatReturns(r)
    \/ \E r \in inflight, err \in EngineFailures : ChatThrows(r, err)
    \/ \E supplied \in SuppliedIds : PostReset(supplied)
    \/ EvictExpired
    \/ Idle
    \/ StopCleanup

ServerInit == EngineUnused /\ SnapshotUnused /\ ManagerInit /\ sessionTtlMs = MaxTtl /\ ServerUnused /\ ClientUnused

SpecServer == ServerInit /\ [][ServerNext]_vars

C22_DestroyIdempotent ==
    [][smOp'.op = "destroy" =>
        LET id == smOp'.id
        IN /\ id \notin Ids(sessions) => sessions' = sessions
           /\ id \in Ids(sessions) =>
                /\ Len(sessions') = Len(sessions) - 1
                /\ Ids(sessions') = Ids(sessions) \ {id}
                /\ \A i \in DOMAIN sessions :
                     sessions[i].id # id => \E j \in DOMAIN sessions' : sessions'[j] = sessions[i]
           /\ id \notin Ids(sessions')
           /\ SelectSeq(sessions', LAMBDA e : e.id # id) = sessions']_vars

\* A registered session has been destroyed and another one is left.
C22_Witness ==
    /\ smOp.op = "destroy" /\ smOp.hit
    /\ sessions # <<>>
    /\ Gone(smOp.id).by = "destroy"


\* C23: no engine is registered under two live session ids, and a step
\* changes the history of at most one engine, the one the request of that
\* step runs on: a chat() or reset() of one session leaves the history of
\* every other live session's engine as it was.
C23_SessionIsolation ==
    [][/\ \A i, j \in DOMAIN sessions' : i # j => sessions'[i].engine # sessions'[j].engine
       /\ \A e \in Engines : hist'[e] # hist[e] => exchange'.engine = e
       /\ \A i \in DOMAIN sessions' :
            sessions'[i].id # exchange'.sid => hist'[sessions'[i].engine] = hist[sessions'[i].engine]]_vars

\* The chat() of one session has returned while another live session has a
\* history of its own.
C23_Witness ==
    /\ exchange.event = "responded" /\ exchange.route = "chat" /\ exchange.status = 200
    /\ \E i \in DOMAIN sessions :
         /\ sessions[i].id # exchange.sid
         /\ sessions[i].engine # exchange.engine
         /\ hist[sessions[i].engine] # <<>>
    /\ Len(hist[exchange.engine]) = 2


\* C24: an engine serves one request at a time: no two chat() calls are in
\* flight on the same engine, and reset() is not applied to an engine while
\* a chat() of it is in flight.
C24_OneRequestPerEngine ==
    /\ \A r1, r2 \in inflight : r1 # r2 => r1.engine # r2.engine
    /\ (exchange.route = "reset" /\ exchange.status = 200 /\ exchange.engine # NoEngine)
         => \A r \in inflight : r.engine # exchange.engine



\* Request r is in flight on an engine that is not, or no longer, the one
\* registered under r's session id.
Orphaned(r) ==
    ~\E i \in DOMAIN sessions : sessions[i].id = r.sid /\ sessions[i].engine = r.engine

\* C32: the TTL sweep and the eviction at capacity remove a session without
\* regard to a chat() in flight on its engine: the request stays in flight and
\* the engine keeps its history; when that chat() returns, the answer is sent
\* with the session id the request ran under and the session is not registered
\* again; the next chat request for the id runs on an engine the factory makes
\* for it, which is not the removed one and holds that request's user message
\* only.
C32_EvictedInFlight ==
    [][/\ \A r \in inflight :
            (~Orphaned(r) /\ Orphaned(r)') =>
               /\ r \in inflight'
               /\ hist'[r.engine] = hist[r.engine]
               /\ smOp'.op \in {"evictExpired", "getOrCreate"}
               /\ Gone(r.sid)' = [engine |-> r.engine,
                                  by |-> IF smOp'.op = "evictExpired" THEN "ttl" ELSE "capacity"]
       /\ \A r \in inflight :
            (Orphaned(r) /\ r \notin inflight' /\ exchange'.status = 200) =>
               /\ exchange'.event = "responded" /\ exchange'.n = r.n
               /\ exchange'.response = "answer"
               /\ exchange'.sessionId = (IF r.sid \in {ObjectKeys[i] : i \in DOMAIN ObjectKeys}
                                           THEN ObjectText ELSE r.sid)
               /\ hist'[r.engine] = Append(hist[r.engine], [role |-> "assistant", n |-> r.n])
               /\ sessions' = sessions
       /\ \A r \in inflight :
            (Orphaned(r) /\ exchange'.event = "accepted" /\ exchange'.sid = r.sid
               /\ r.sid \notin Ids(sessions)) =>
               /\ exchange'.engine # r.engine
               /\ exchange'.engine = created + 1
               /\ hist'[exchange'.engine] = <<[role |-> "user", n |-> exchange'.n]>>
               /\ hist'[r.engine] = hist[r.engine]]_vars

\* A session was swept while its chat() was in flight, the next request for
\* its id got a new engine, and then the first chat() returned: its answer
\* went out with the session id, and the engine now registered under the id
\* holds the second request's message only.
C32_Witness ==
    /\ exchange.event = "responded" /\ exchange.route = "chat" /\ exchange.status = 200
    /\ exchange.sessionId = exchange.sid
    /\ exchange.sid \in Ids(sessions)
    /\ EngineOf(sessions, exchange.sid) # exchange.engine
    /\ Gone(exchange.sid) = [engine |-> exchange.engine, by |-> "ttl"]
    /\ Len(hist[exchange.engine]) = 2
    /\ \E n \in 1..MaxRequests :
         /\ n # exchange.n
         /\ hist[EngineOf(sessions, exchange.sid)] = <<[role |-> "user", n |-> n]>>

\* C38: POST /api/reset that names a registered session answers 200, empties
\* the history of that session's engine and of no other, and leaves the
\* registry with the same sessions and engines, the session named having its
\* lastAccessed set to the time of the request; one that names an id that is
\* not registered answers 200 as well and leaves registry, engines and
\* histories as they are, the factory not being called.
C38_ResetRoute ==
    [][(exchange'.route = "reset" /\ exchange'.status = 200) =>
          /\ exchange'.error = NoText
          /\ created' = created
          /\ gone' = gone
          /\ inflight' = inflight
          /\ IF exchange'.sid \in Ids(sessions)
               THEN /\ exchange'.engine = EntryOf(sessions, exchange'.sid).engine
                    /\ hist' = [hist EXCEPT ![exchange'.engine] = <<>>]
                    /\ sessions' = [i \in DOMAIN sessions |->
                                      IF sessions[i].id = exchange'.sid
                                        THEN [id |-> sessions[i].id, engine |-> sessions[i].engine,
                                              lastAccessed |-> now]
                                        ELSE sessions[i]]
               ELSE /\ exchange'.engine = NoEngine
                    /\ sessions' = sessions
                    /\ hist' = hist]_vars

\* A session that held a conversation was reset by a later request at a later
\* time: it is registered with the engine it had, whose history is empty.
C38_Witness ==
    /\ exchange.route = "reset" /\ exchange.status = 200
    /\ exchange.engine # NoEngine
    /\ exchange.sid \in Ids(sessions)
    /\ EntryOf(sessions, exchange.sid) = [id |-> exchange.sid, engine |-> exchange.engine,
                                         lastAccessed |-> now]
    /\ now > 0
    /\ hist[exchange.engine] = <<>>
    /\ inflight = {}
    /\ created = 1
\* The manager with its timer, under a caller that may stop the timer.
CleanupNext ==
    \/ \E id \in SessionIds : GetOrCreate(id)
    \/ \E id \in SessionIds : Has(id)
    \/ \E id \in SessionIds : Destroy(id)
    \/ EvictExpired
    \/ Idle
    \/ StopCleanup

CleanupInit == EngineUnused /\ SnapshotUnused /\ ManagerInit /\ ServerUnused /\ ClientUnused

SpecCleanup == CleanupInit /\ [][CleanupNext]_vars

\* C25: once stopCleanup() has run the timer stays cleared and no sweep runs:
\* sessions leave the registry only through destroy and eviction at capacity.
\* A further stopCleanup() changes nothing.  The other operations go on as
\* with the timer: getOrCreate registers or refreshes the session it is asked
\* for and returns its engine, a new one for an id that was not registered,
\* and on a full registry it evicts the session _evictOldest picks (none when
\* that session's id is falsy, with or without the timer); has() tells
\* whether an id is registered; destroy removes the id and nothing else.
C25_StoppedCleanup ==
    [][/\ smOp'.op = "stopCleanup" => ~cleanupInterval' /\ sessions' = sessions
       /\ ~cleanupInterval =>
            /\ ~cleanupInterval'
            /\ smOp'.op # "evictExpired"
            /\ smOp'.op = "stopCleanup" => managerVars' = managerVars
            /\ ~(Ids(sessions) \subseteq Ids(sessions')) => smOp'.op \in {"destroy", "getOrCreate"}
            /\ smOp'.op = "getOrCreate" =>
                 /\ smOp'.hit = (smOp'.id \in Ids(sessions))
                 /\ smOp'.hit => smOp'.engine = EngineOf(sessions, smOp'.id)
                 /\ ~smOp'.hit => smOp'.engine = created + 1
                 /\ \E i \in DOMAIN sessions' :
                      /\ sessions'[i].id = smOp'.id
                      /\ sessions'[i].engine = smOp'.engine
                      /\ sessions'[i].lastAccessed = now
                 /\ (~smOp'.hit /\ Len(sessions) >= maxSessions) =>
                      smOp'.removed = IF Truthy(sessions[Oldest(sessions)].id) THEN 1 ELSE 0
            /\ smOp'.op = "has" =>
                 smOp'.hit = (smOp'.id \in Ids(sessions)) /\ sessions' = sessions
            /\ smOp'.op = "destroy" => Ids(sessions') = Ids(sessions) \ {smOp'.id}]_vars

\* After stopCleanup() a session that has outlived its TTL is still
\* registered and is evicted at capacity by the getOrCreate of another id.
C25_Witness ==
    /\ ~cleanupInterval
    /\ smOp.op = "getOrCreate" /\ ~smOp.hit /\ smOp.removed = 1
    /\ now > sessionTtlMs
    /\ \E id \in AllIds : Gone(id).by = "capacity"

\* ---------------------------------------------------------------------
\* The Fliplet client, one method call at a time
\* ---------------------------------------------------------------------
\* A method checks its argument and calls _request, which calls fetch and
\* waits for it, then waits for response.json(), then returns or throws.
MaxInvocations == 2     \* calls of client methods in one run

ClientMethods == {"listDataSources", "getDataSource", "getDataSourceEntries", "listMedia", "getMediaFile"}

\* What a caller passes as the id: nothing, null, the number 0 or another number.
ClientArgs == {"undefined", "null", "0", "1"}

\* dataSourceId === undefined || dataSourceId === null
Absent(arg) == arg \in {"undefined", "null"}

\* The method called with the argument, up to its request.
Invoke(method, arg) ==
    LET id == IF Absent(arg) THEN NoId ELSE 1
    IN CASE method = "listDataSources" -> listDataSources
         [] method = "getDataSource" -> getDataSource(id)
         [] method = "getDataSourceEntries" -> getDataSourceEntries(id)
         [] method = "listMedia" -> listMedia
         [] OTHER -> getMediaFile(id)

\* What the response of a request can turn out to be once fetch has resolved.
ResponseOutcomes == {"ok", "http_error", "non_json"}

\* A method is called: it throws on its argument, or _request calls fetch.
ClientCall(method, arg) ==
    /\ client.pc \in {"idle", "done"}
    /\ client.calls < MaxInvocations
    /\ LET c == Invoke(method, arg)
       IN client' = IF c.kind = "threw"
                      THEN [pc |-> "done", method |-> method, arg |-> arg, fetches |-> 0, parses |-> 0,
                            threw |-> TRUE, err |-> c.err, calls |-> client.calls + 1]
                      ELSE [pc |-> "fetching", method |-> method, arg |-> arg, fetches |-> 1, parses |-> 0,
                            threw |-> FALSE, err |-> NoError, calls |-> client.calls + 1]
    /\ UNCHANGED <<engineVars, snapshotVars, sessionVars, serverVars, executor>>

FetchRejects_Retries(ending) ==
    /\ client.pc = "fetching"
    /\ client' = IF client.fetches < 3
                   THEN [client EXCEPT !.fetches = @ + 1]
                   ELSE [client EXCEPT !.pc = "done", !.threw = TRUE, !.err = Request(ending).err]
    /\ UNCHANGED <<engineVars, snapshotVars, sessionVars, serverVars, executor>>

\* fetch rejects: the request timed out (AbortError) or the network failed.
FetchRejects(ending) ==
    /\ client.pc = "fetching"
    /\ client' = [client EXCEPT !.pc = "done", !.threw = TRUE, !.err = Request(ending).err]
    /\ UNCHANGED <<engineVars, snapshotVars, sessionVars, serverVars, executor>>

\* fetch resolves with a response, and _request waits for its body.
FetchResolves ==
    /\ client.pc = "fetching"
    /\ client' = [client EXCEPT !.pc = "parsing", !.parses = @ + 1]
    /\ UNCHANGED <<engineVars, snapshotVars, sessionVars, serverVars, executor>>

\* response.json() settles: _request returns the data or throws.
BodySettles(ending) ==
    /\ client.pc = "parsing"
    /\ client' = [client EXCEPT !.pc = "done", !.threw = Request(ending).threw,
                                !.err = Request(ending).err]
    /\ UNCHANGED <<engineVars, snapshotVars, sessionVars, serverVars, executor>>

ClientNext ==
    \/ \E method \in ClientMethods, arg \in ClientArgs : ClientCall(method, arg)
    \/ \E ending \in {"timeout", "network_error"} : FetchRejects(ending)
    \/ FetchResolves
    \/ \E ending \in ResponseOutcomes : BodySettles(ending)

ClientInit == EngineUnused /\ SnapshotUnused /\ SessionsUnused /\ ServerUnused /\ ClientUnused

SpecClient == ClientInit /\ [][ClientNext]_vars

\* C26: a call of a client method issues exactly one HTTP request, however
\* the request ends, and none after it; only getDataSource,
\* getDataSourceEntries and getMediaFile called without an id (undefined or
\* null) issue no request and fail with the method's own Error.
RequiresId == {"getDataSource", "getDataSourceEntries", "getMediaFile"}

C26_OneRequestPerCall ==
    /\ client.pc \in {"fetching", "parsing"} => client.fetches = 1
    /\ client.pc = "done" =>
         IF client.method \in RequiresId /\ Absent(client.arg)
           THEN /\ client.fetches = 0
                /\ client.threw /\ client.err.name = "Error"
           ELSE client.fetches = 1

\* A call with the id 0 has ended in a network failure.
C26_Witness ==
    /\ client.pc = "done" /\ client.method = "getDataSource" /\ client.arg = "0"
    /\ client.threw /\ client.err.name = "TypeError"
    /\ client.fetches = 1


\* The engine a request that carries the session id text w is served by, when
\* the registry is s: NoEngine when getOrCreate would have to make one.
Reaches(w, s) ==
    IF w # ObjectText /\ w \in Ids(s) THEN EngineOf(s, w) ELSE NoEngine

\* C27: a chat request that is accepted runs on the engine registered under
\* the session id the client supplied, or under a newly generated id when it
\* supplied none; the successful response carries the answer and that id, and
\* as long as the session is registered a request that sends the id back is
\* served by the same engine.
C27_SessionIdRoundTrip ==
    [][/\ exchange'.event = "accepted" =>
            /\ exchange'.sid = IF exchange'.supplied # NoText
                                 THEN Parsed(exchange'.supplied, exchange'.n)
                                 ELSE GeneratedIds[uuids']
            /\ exchange'.supplied = NoText =>
                  uuids' = uuids + 1 /\ exchange'.sid \notin Ids(sessions)
            /\ EngineOf(sessions', exchange'.sid) = exchange'.engine
       /\ (exchange'.event = "responded" /\ exchange'.route = "chat" /\ exchange'.status = 200) =>
            /\ exchange'.response # NoText
            /\ \E r \in inflight :
                 /\ r.n = exchange'.n /\ r.engine = exchange'.engine
                 /\ exchange'.sessionId = Sent(r.sid)
                 /\ (\E i \in DOMAIN sessions' : sessions'[i].id = r.sid /\ sessions'[i].engine = r.engine)
                      => Reaches(exchange'.sessionId, sessions') = r.engine]_vars


C29_RejectsBeforeSessionWork ==
    [][(/\ received' = received + 1
        /\ exchange'.route = "chat"
        /\ \/ exchange'.message.type = "undefined"
           \/ exchange'.message.type # "string"
           \/ exchange'.message.text = ""
           \/ exchange'.message.text = "   ")
       => (/\ exchange'.event = "responded"
           /\ exchange'.status = 400 /\ exchange'.error = BadMessageError
           /\ uuids' = uuids
           /\ managerVars' = managerVars
           /\ inflight' = inflight
           /\ hist' = hist)]_vars

\* A whitespace-only message is rejected while a session is registered and a
\* chat is in flight.
C29_Witness ==
    /\ exchange.route = "chat" /\ exchange.status = 400
    /\ exchange.message.text = "   "
    /\ sessions # <<>>
    /\ inflight # {}


\* A chat() that rejected while dispatching tool calls.
DispatchFailed(o) == o.kind = "threw" /\ o.failure # ModelCallError

\* C30: when chat() rejects at the dispatch of a round, because the arguments
\* of one of its calls do not parse or its tool is unknown, the history holds
\* what it held plus the user message, the completed rounds and this round's
\* assistant tool-call message, and no tool result of this round, neither
\* then nor when sibling calls of the round settle later; the next chat() on
\* the engine sends that assistant tool-call message followed directly by the
\* new user message.
C30_DanglingToolCalls ==
    [][/\ (pc = "awaitModel" /\ DispatchFailed(outcome')) =>
            /\ pc' = "idle"
            /\ Len(history') = Len(history) + 1
            /\ SubSeq(history', 1, Len(history)) = history
            /\ history'[Len(history')].role = "assistant"
            /\ Len(history'[Len(history')].tool_calls) = Len(calls')
            /\ Roles(SubSeq(history', Len(histAtStart) + 1, Len(history')))
                   = <<"user">> \o RoundRoles(rounds) \o <<"assistant">>
       /\ (pc = "idle" /\ DispatchFailed(outcome) /\ calls' # calls) => history' = history
       /\ (pc = "idle" /\ DispatchFailed(outcome) /\ chats' = chats + 1) =>
            /\ Len(sent') >= 3
            /\ sent'[Len(sent') - 1] = history[Len(history)]
            /\ sent'[Len(sent') - 1].role = "assistant"
            /\ sent'[Len(sent') - 1].tool_calls # <<>>
            /\ sent'[Len(sent')].role = "user"
            /\ \A i \in DOMAIN sent' : sent'[i].role = "tool" =>
                 \A k \in DOMAIN calls : sent'[i].tool_call_id # calls[k].id]_vars

\* The second chat() waits for the model after a first one that rejected on an
\* unknown tool while the sibling call of the round was executed.
C30_Witness ==
    /\ pc = "awaitModel" /\ chats = 2
    /\ Len(sent) >= 3
    /\ sent[Len(sent) - 1].role = "assistant"
    /\ Len(sent[Len(sent) - 1].tool_calls) = 2
    /\ sent[Len(sent)].role = "user"
    /\ Len(calls) = 2
    /\ \E i, j \in DOMAIN calls :
         /\ calls[i].executed /\ calls[i].status # "rejected"
         /\ calls[j].status = "rejected" /\ calls[j].failure = UnknownTool("nonexistent_tool")


\* C36: a chat() never has more model calls or more rounds of tool calls than
\* the cap, and no model call is outstanding once cap rounds are complete;
\* when every model call was answered with tool calls and each round was
\* completed, chat() returns the safety message after exactly cap model calls
\* and cap rounds, the results of the last round standing in the history
\* right before the safety message.
C36_ExactlyCapRounds ==
    /\ modelCalls <= maxIterations
    /\ Len(rounds) <= maxIterations
    /\ Len(rounds) <= modelCalls
    /\ (pc = "awaitModel") => Len(rounds) < maxIterations
    /\ (Terminated /\ OnlyToolCallResponses /\ outcome.kind = "returned") =>
          /\ outcome.text = SafetyMessage
          /\ modelCalls = maxIterations
          /\ iterations = maxIterations
          /\ Len(responses) = maxIterations
          /\ Len(rounds) = maxIterations
          /\ Len(history) >= 2
          /\ history[Len(history)] = AssistantText(SafetyMessage)
          /\ history[Len(history) - 1] =
                ToolMessage(calls[Len(calls)].id, calls[Len(calls)].result)
          /\ \A i \in DOMAIN calls : calls[i].status = "fulfilled"

\* With a cap of two, two model calls were each answered with one tool call,
\* both were executed, and chat() returned the safety message.
C36_Witness ==
    /\ Terminated
    /\ maxIterations = 2
    /\ modelCalls = 2
    /\ rounds = <<1, 1>>
    /\ executions = 2
    /\ outcome = Returned(SafetyMessage)
    /\ history[Len(history) - 1].role = "tool"

\* ---------------------------------------------------------------------
\* reset() while a chat() of the same engine is suspended
\* ---------------------------------------------------------------------
\* chat() reads this._history anew at every push and at every model call, and
\* reset() assigns a new empty array: a chat() suspended at its model call or
\* at Promise.all goes on with the array it finds when it resumes.
ResetInFlight_Cancels ==
    /\ pc \in {"awaitModel", "dispatch"}
    /\ history' = <<>>
    /\ pc' = "idle"
    /\ outcome' = NoOutcome
    /\ UNCHANGED <<maxIterations, tools, iterations, sent, sentTools, calls, histAtStart,
                   userMessage, rounds, responses, executions, modelCalls, chats, issued>>
    /\ UNCHANGED <<snapshotVars, sessionVars, serverVars, clientVars>>

\* reset(), called while a chat() of this engine awaits the model or its tools.
ResetInFlight ==
    /\ pc \in {"awaitModel", "dispatch"}
    /\ history' = <<>>
    /\ UNCHANGED <<maxIterations, tools, pc, iterations, sent, sentTools, calls, outcome,
                   histAtStart, userMessage, rounds, responses, executions, modelCalls,
                   chats, issued>>
    /\ UNCHANGED <<snapshotVars, sessionVars, serverVars, clientVars>>

MaxOverlapChats == 1    \* chat() invocations in a run with resets in flight

OverlapNext ==
    \/ \E msg \in UserMessages : chats < MaxOverlapChats /\ Chat(msg)
    \/ ModelFails
    \/ \E t \in AnswerTexts : ModelText(t)
    \/ \E choice \in (IF pc = "awaitModel" THEN CallChoices ELSE {}) : ModelToolCalls(choice)
    \/ \E i \in DOMAIN calls, o \in RequestOutcomes : RequestSettles(i, o)
    \/ ResetInFlight

\* An engine built with the tool list and the largest cap explored.
OverlapInit ==
    /\ EngineInit /\ maxIterations = MaxCap /\ tools = ToolDefinitions
    /\ SnapshotUnused /\ SessionsUnused /\ ServerUnused /\ ClientUnused

SpecOverlap == OverlapInit /\ [][OverlapNext]_vars

\* The user message of the latest chat() is no longer where chat() pushed it.
UserMessageDropped == ~IsPrefix(Append(histAtStart, UserMessage(userMessage)), history)

\* C31: a reset() during a suspended chat() empties the history and leaves the
\* chat() suspended where it was, with its calls and without an outcome; the
\* chat() then appends to the new history, so that when it returns its answer
\* after such a reset() the history is not empty and does not begin with a
\* user message.
C31_ResetDoesNotCancel ==
    [][/\ (pc # "idle" /\ Len(history') < Len(history)) =>
             /\ history' = <<>>
             /\ pc' = pc
             /\ calls' = calls
             /\ outcome' = outcome
             /\ outcome = Pending
       /\ (pc # "idle" /\ pc' = "idle" /\ outcome'.kind = "returned" /\ UserMessageDropped') =>
             /\ history' # <<>>
             /\ history'[1].role # "user"
             /\ history'[Len(history')] = AssistantText(outcome'.text)
             /\ IsPrefix(history, history')]_vars

\* A chat() was reset at its first model call, then ran a round of tool calls
\* and returned its answer: the history holds the round and the answer only.
C31_Witness ==
    /\ Terminated
    /\ outcome.kind = "returned"
    /\ UserMessageDropped
    /\ histAtStart = <<>>
    /\ rounds # <<>>
    /\ history[1].role = "assistant"
    /\ Len(history) >= 3

\* ---------------------------------------------------------------------
\* The configured limits
\* ---------------------------------------------------------------------
DefaultMaxIterations == 10
DefaultMaxSessions == 100
DefaultSessionTtlMs == 1800000

\* What the caller may have written for a numeric option: nothing, or a number.
ConfiguredOptions ==
    {[given |-> FALSE, value |-> 0]} \cup {[given |-> TRUE, value |-> v] : v \in -1..1}

\* options.x || DEFAULT: the default stands in for an absent option and for 0,
\* the only falsy number among the values above.
OrDefault(c, default) == IF c.given /\ c.value # 0 THEN c.value ELSE default

\* An engine and a manager built from configured options.
ConfigInit ==
    /\ \E c \in ConfiguredOptions : maxIterations = OrDefault(c, DefaultMaxIterations)
    /\ \E c \in ConfiguredOptions : maxSessions = OrDefault(c, DefaultMaxSessions)
    /\ \E c \in ConfiguredOptions : sessionTtlMs = OrDefault(c, DefaultSessionTtlMs)
    /\ history = <<>> /\ tools = ToolDefinitions /\ sentTools = NothingSent
    /\ pc = "idle" /\ iterations = 0 /\ sent = <<>> /\ calls = <<>>
    /\ outcome = NoOutcome /\ histAtStart = <<>> /\ userMessage = NoText
    /\ rounds = <<>> /\ responses = <<>> /\ executions = 0
    /\ modelCalls = 0 /\ chats = 0 /\ issued = 0
    /\ sessions = <<>> /\ now = 0 /\ created = 0
    /\ gone = [id \in {} |-> NeverGone] /\ smOp = NoOp /\ cleanupInterval = TRUE
    /\ SnapshotUnused /\ ServerUnused /\ ClientUnused

SpecConfig == ConfigInit /\ [][Next]_vars

\* C37 as stated: the limits in force are at least 1 whatever was configured,
\* and a chat() that has ended has made at least one model call.
C37_LimitsAtLeastOne ==
    /\ maxIterations >= 1
    /\ maxSessions >= 1
    /\ sessionTtlMs >= 1
    /\ Terminated => modelCalls >= 1


\* ---------------------------------------------------------------------
\* The ToolExecutor, one execute() at a time
\* ---------------------------------------------------------------------
MaxExecutions == 2      \* calls of execute() in one run

\* Argument objects a caller may pass: what the argument payloads parse to,
\* and an object that carries a dataSourceId next to another property.
ExecutorArgs ==
    {JSONParse(s) : s \in {t \in ArgumentStrings : JSONParse(t).ok}}
      \cup {[ok |-> TRUE, isNull |-> FALSE, dataSourceId |-> 1, fileId |-> 7]}

\* How a request of the client can end.
ExecutorOutcomes == RequestOutcomes \cup ResponseOutcomes

\* The calls of client methods the handler found for toolName makes, each
\* with the id it passes and, for getDataSourceEntries, the options object
\* (the arguments without dataSourceId; fileId is their only other property).
\* A handler that reads a property of null throws before it calls the client;
\* listMedia is passed args.folderId, which no payload here defines.
HandlerCalls(toolName, args) ==
    CASE HandlerLookup(toolName) # "own" -> <<>>
      [] toolName = "list_data_sources" ->
           <<[method |-> "listDataSources", id |-> NoId, hasOptions |-> FALSE, options |-> NoId]>>
      [] args.isNull -> <<>>
      [] toolName = "get_data_source" ->
           <<[method |-> "getDataSource", id |-> args.dataSourceId, hasOptions |-> FALSE, options |-> NoId]>>
      [] toolName = "get_data_source_entries" ->
           <<[method |-> "getDataSourceEntries", id |-> args.dataSourceId, hasOptions |-> TRUE, options |-> args.fileId]>>
      [] toolName = "list_media" ->
           <<[method |-> "listMedia", id |-> NoId, hasOptions |-> FALSE, options |-> NoId]>>
      [] OTHER ->
           <<[method |-> "getMediaFile", id |-> args.fileId, hasOptions |-> FALSE, options |-> NoId]>>

\* execute(toolName, args) is called and runs to its first wait, or to its end
\* when the handler made no request.  caught is the error the catch received.
Execute(toolName, args) ==
    /\ executor.pc \in {"idle", "settled"}
    /\ executor.executions < MaxExecutions
    /\ LET e == execute(toolName, args)
           threw == /\ HandlerLookup(toolName) # "undefined"
                    /\ InvokeHandler(toolName, args).kind = "threw"
       IN executor' =
            [pc |-> IF e.status = "pending" THEN "pending" ELSE "settled",
             toolName |-> toolName, args |-> args,
             invoked |-> HandlerCalls(toolName, args),
             caught |-> IF threw THEN InvokeHandler(toolName, args).err ELSE NoError,
             status |-> e.status, failure |-> e.failure, result |-> e.result,
             requested |-> e.requested, method |-> e.method, field |-> e.field,
             executions |-> executor.executions + 1]
    /\ UNCHANGED <<engineVars, snapshotVars, sessionVars, serverVars, client>>

\* The request of the awaited client method ends, and execute() with it.
ExecuteSettles(ending) ==
    /\ executor.pc = "pending"
    /\ LET s == executeSettle(executor.field, ending)
       IN executor' = [executor EXCEPT !.pc = "settled",
                                       !.caught = Request(ending).err,
                                       !.status = s.status,
                                       !.failure = s.failure,
                                       !.result = s.result]
    /\ UNCHANGED <<engineVars, snapshotVars, sessionVars, serverVars, client>>

ExecutorNext ==
    \/ \E toolName \in ToolNames, args \in ExecutorArgs : Execute(toolName, args)
    \/ \E ending \in ExecutorOutcomes : ExecuteSettles(ending)

ExecutorInit == EngineUnused /\ SnapshotUnused /\ SessionsUnused /\ ServerUnused /\ ClientUnused

SpecExecutor == ExecutorInit /\ [][ExecutorNext]_vars

\* C39: whenever execute() has caught an error it returns an error record
\* whose error flag is true and whose message is the error's message; the
\* record carries statusCode and details, the error's status code and
\* response body, exactly when the error is a FlipletApiError, and neither
\* for any other error.  Without a caught error no error record is returned.
C39_ErrorRecord ==
    executor.pc = "settled" =>
      /\ executor.result.error = (executor.caught # NoError)
      /\ executor.caught # NoError =>
           /\ executor.status = "fulfilled"
           /\ executor.result.message = executor.caught.message
           /\ executor.result.data = NoText
           /\ executor.result.hasStatus = (executor.caught.name = "FlipletApiError")
           /\ executor.result.hasStatus =>
                /\ executor.result.statusCode = executor.caught.statusCode
                /\ executor.result.details = executor.caught.responseBody
           /\ ~executor.result.hasStatus =>
                executor.result.statusCode = 0 /\ executor.result.details = NoText

\* The second execute() of a run has caught a FlipletApiError with a status
\* and a body and returned it as a record.
C39_Witness ==
    /\ executor.pc = "settled" /\ executor.executions = 2
    /\ executor.caught.name = "FlipletApiError"
    /\ executor.result.hasStatus /\ executor.result.statusCode = 404
    /\ executor.result.details = "body"


\* C40 as stated: for each of the five tool names execute() calls exactly one
\* client method, the one mapped to the name, exactly once and with the
\* arguments of the tool call (getDataSourceEntries: dataSourceId first, the
\* remaining arguments as the options object), no other client method, and
\* returns the client's result unchanged when the call succeeds.
C40_OneClientCall ==
    (executor.pc # "idle" /\ executor.toolName \in HandlerNames) =>
      LET name == executor.toolName
          mapped == CASE name = "list_data_sources" -> "listDataSources"
                      [] name = "get_data_source" -> "getDataSource"
                      [] name = "get_data_source_entries" -> "getDataSourceEntries"
                      [] name = "list_media" -> "listMedia"
                      [] OTHER -> "getMediaFile"
      IN /\ Len(executor.invoked) = 1
         /\ executor.invoked[1].method = mapped
         /\ executor.requested => executor.method = mapped
         /\ (executor.pc = "settled" /\ executor.caught = NoError) =>
              /\ executor.requested
              /\ executor.result = DataResult(executor.field)

\* C40, amended: for each of the five tool names execute() calls at most one
\* client method, and when the argument object is not null exactly one, once:
\* the one mapped to the name, with the arguments of the tool call
\* (getDataSource and getDataSourceEntries the dataSourceId, getMediaFile the
\* fileId, getDataSourceEntries also the remaining arguments as the options
\* object, listDataSources nothing).  A request is issued only by that method,
\* and when it succeeds execute() returns the method's result unchanged.  On
\* null arguments list_data_sources calls listDataSources as ever, and the
\* other four handlers call no client method: reading the property throws, and
\* execute() returns the TypeError as an error record.
C40_OneClientCallUnlessNull ==
    (executor.pc # "idle" /\ executor.toolName \in HandlerNames) =>
      LET name == executor.toolName
          args == executor.args
          mapped == CASE name = "list_data_sources" -> "listDataSources"
                      [] name = "get_data_source" -> "getDataSource"
                      [] name = "get_data_source_entries" -> "getDataSourceEntries"
                      [] name = "list_media" -> "listMedia"
                      [] OTHER -> "getMediaFile"
          returns == CASE name = "list_data_sources" -> "dataSources"
                       [] name = "get_data_source" -> "dataSource"
                       [] name = "get_data_source_entries" -> "entries"
                       [] name = "list_media" -> "folders,files"
                       [] OTHER -> "file"
          noCall == args.isNull /\ name # "list_data_sources"
      IN /\ Len(executor.invoked) = IF noCall THEN 0 ELSE 1
         /\ noCall =>
              /\ executor.pc = "settled" /\ ~executor.requested
              /\ executor.status = "fulfilled"
              /\ executor.result.error /\ executor.caught.name = "TypeError"
         /\ ~noCall =>
              /\ executor.invoked[1].method = mapped
              /\ name \in {"get_data_source", "get_data_source_entries"} =>
                   executor.invoked[1].id = args.dataSourceId
              /\ name = "get_media_file" => executor.invoked[1].id = args.fileId
              /\ executor.invoked[1].hasOptions = (name = "get_data_source_entries")
              /\ name = "get_data_source_entries" => executor.invoked[1].options = args.fileId
         /\ executor.requested =>
              /\ ~noCall
              /\ executor.method = mapped /\ executor.field = returns
         /\ (executor.pc = "settled" /\ executor.caught = NoError) =>
              /\ executor.requested
              /\ executor.status = "fulfilled"
              /\ executor.result = DataResult(returns)

\* get_data_source_entries was executed with a dataSourceId and a further
\* argument, its request succeeded and execute() returned the entries.
C40_Witness ==
    /\ executor.pc = "settled" /\ executor.toolName = "get_data_source_entries"
    /\ executor.args.dataSourceId = 1 /\ executor.args.fileId = 7
    /\ executor.invoked = <<[method |-> "getDataSourceEntries", id |-> 1, hasOptions |-> TRUE, options |-> 7]>>
    /\ executor.caught = NoError
    /\ executor.result = DataResult("entries")

====
